---- MODULE Spec2Model ----
(***************************************************************************)
(* Lease, fence and transaction queue of the Persponify control-plane      *)
(* server (src/app.py).  All handlers run under the single condition       *)
(* variable _cv; a handler is one atomic action, except /wait, which gives *)
(* the lock up while it sleeps in _cv.wait and is modelled as an entry     *)
(* step followed by resume steps.                                          *)
(***************************************************************************)
EXTENDS Integers, Sequences, FiniteSets, TLC

\* ---------------------------------------------------------------- bounds
MaxLeases == 2        \* lease tokens minted (primary transitions)
MaxItems == 2         \* claim tokens minted (queue items built)
MaxTime == 30         \* the clock stops advancing here
MaxWaiters == 1       \* /wait calls that may sleep in _cv.wait at once
MaxEntryItems == 3    \* claim tokens minted where the entry paths are exercised
MaxCtxVersion == 2    \* context versions assigned per key
MaxJobs == 3          \* job ids minted (uuid4 draws for jobs)
MaxBridgeItems == 2   \* claim tokens minted where the job bridge is exercised
MaxWorkers == 2        \* codex_worker processes started on one queue root
MaxBridgeJobs == 1    \* job ids minted where the validation of responses is exercised

\* ------------------------------------------------------ program constants
HEARTBEAT_TTL_SEC == 15
CLAIM_TTL_SEC == 30
DEFAULT_WAIT_TIMEOUT_SEC == 25
MAX_QUEUE_SIZE == 2   \* PERSPONIFY_MAX_QUEUE (1000 when unset), set small here
PROTOCOL_VERSION == 1
CODEX_MAX_ACTIONS == 2   \* PERSPONIFY_CODEX_MAX_ACTIONS (400 when unset), set small here
CODEX_JOB_TTL_SEC == 10  \* PERSPONIFY_CODEX_JOB_TTL_SEC (600 when unset), set small here
CODEX_AUTO_REPAIR == TRUE        \* PERSPONIFY_CODEX_AUTO_REPAIR set to "1"
CODEX_REPAIR_MAX_ATTEMPTS == 1   \* PERSPONIFY_CODEX_REPAIR_MAX_ATTEMPTS (2 when unset), set small here
CODEX_REPAIR_COOLDOWN_SEC == 8

\* ----------------------------------------------------------- input values
None == 0
NoneStr == "None"
Clients == {"c1", "c2"}
Sessions == {"s1", "s2"}
Places == {10}
BadPlace == 11
TxIds == {"tx1"}
ReceiptTxIds == {"tx1", "tx2"}
Identities == Clients \X {"s1"}
SinceVals == {1, 2}
TimeoutVals == {0}
ProtocolVersions == {PROTOCOL_VERSION, PROTOCOL_VERSION + 1}
TickSteps == {HEARTBEAT_TTL_SEC}
BogusToken == 99
ActionCounts == {1, CODEX_MAX_ACTIONS + 1}
EntryTxIds == {"tx1", NoneStr}
Fingerprints == {NoneStr, "F1", "F2"}      \* meta.fingerprint, NoneStr when absent
ExportModes == {"full", "diff", "noscope"} \* meta.scope.mode; "noscope": meta has no scope
MinIntervals == {0, HEARTBEAT_TTL_SEC}     \* PERSPONIFY_CONTEXT_MIN_INTERVAL_SEC
NoTime == -1                               \* no entry in a map of times
Bytes == {5, 6}                            \* byte counts of scripts
JobIds == 1..MaxJobs                       \* the uuid4 values of jobs, in the order drawn
NoHash == <<"none", "">>                   \* no expectedHash, no cached hash
BridgeTxIds == ReceiptTxIds \cup {"TX_CODEX_" \o ToString(j) : j \in JobIds}
Workers == 1..MaxWorkers                   \* the pids of the codex_worker processes
NoPid == 0                                 \* no pid: an empty lock file, no lock holder
Inodes == 1..(MaxWorkers + 1)              \* the files worker.lock has named
NoInode == 0                               \* no file

VARIABLES
  primary_lease_token,   \* _primary_lease_token (None = 0)
  primary_session_id,    \* _primary_session_id
  primary_client_id,     \* _primary_client_id
  primary_place_id,      \* _primary_place_id
  fence,                 \* _fence
  last_heartbeat,        \* _last_heartbeat
  seq,                   \* _seq
  queue,                 \* _queue: sequence of items
  claims,                \* _claims: claimToken -> claim
  disk,                  \* queue_state.json as last written
  now,                   \* the clock read by _now()
  lease_uuid,            \* number of lease tokens minted (uuid4 draws of /register)
  claim_uuid,            \* number of claim tokens minted (uuid4 draws for queue items)
  waiters,               \* /wait calls asleep in _cv.wait
  resp,                  \* the call that has just returned, with its request
  issued,                \* <<leaseToken, fence>> pairs /register returned in this process
  lastAdmit,             \* how the current primary was admitted
  lastHand,              \* per scope, the last hand-out of /wait since seq was last reset
  consumed,              \* claim tokens consumed by a successful /receipt
  lastEnq,               \* per scope, the last seq assigned to an item of the scope
  context_latest,        \* _context_latest: key -> snapshot
  context_versions,      \* _context_versions: key -> contextVersion (0 when absent)
  context_deltas,        \* _context_deltas
  context_fingerprints,  \* _context_fingerprints
  context_last_export_at,\* _context_last_export_at
  context_export_requests, \* _context_export_requests: scopes with a pending request
  context_file,          \* the snapshot files under the context directory
  context_min_interval,  \* CONTEXT_EXPORT_MIN_INTERVAL_SEC as read from the environment
  rec,                   \* the reconciler thread: its position and its locals
  lastStored,            \* per key, the contextVersion of the last stored export
  resetDone,             \* the keys reset by /context/reset and not exported since
  codex_jobs,            \* jobs/ and _codex_jobs_index: job id -> job
  codex_responses,       \* responses/: job id -> response data
  codex_acks,            \* acks/: job id -> error of the ack, "ok", or "none" for no file
  codex_errors,          \* errors/: the job ids with an error file
  codex_tx_job_map,      \* _codex_tx_job_map: transactionId -> job id (0 when absent)
  codex_repair_attempts, \* _codex_repair_attempts (0 when absent)
  codex_repair_last,     \* _codex_repair_last (NoTime when absent)
  job_uuid,              \* number of job ids minted
  watch,                 \* the watcher thread: its position in the pass
  repairsOf,             \* per transaction, the repair jobs written in consequence of it
  lock_path,             \* the inode that the path worker.lock names (NoInode: no file)
  inode_pid,             \* per inode, the pid written into the file (NoPid: empty)
  inode_flock,           \* per inode, the worker whose open file holds the advisory lock
  worker_pc,             \* per codex_worker process, its position
  worker_fd,             \* per codex_worker process, the inode of its open lock_file
  has_fcntl              \* whether import fcntl succeeds on this platform

leaseVars == <<primary_lease_token, primary_session_id, primary_client_id, primary_place_id>>
queueVars == <<seq, queue, claims, disk>>
ghostVars == <<issued, lastAdmit, lastHand, consumed, lastEnq>>
workerVars == <<lock_path, inode_pid, inode_flock, worker_pc, worker_fd, has_fcntl>>
coreVars == <<leaseVars, fence, last_heartbeat, queueVars, now, lease_uuid, claim_uuid,
              waiters, ghostVars, workerVars>>
ctxMem == <<context_latest, context_versions, context_deltas, context_fingerprints,
            context_last_export_at, context_export_requests>>
ctxVars == <<ctxMem, context_file, context_min_interval, rec, lastStored, resetDone>>
bridgeVars == <<codex_jobs, codex_responses, codex_acks, codex_errors, codex_tx_job_map,
                codex_repair_attempts, codex_repair_last, job_uuid, watch, repairsOf>>
extVars == <<ctxVars, bridgeVars>>
vars == <<primary_lease_token, primary_session_id, primary_client_id, primary_place_id,
          fence, last_heartbeat, seq, queue, claims, disk, now, lease_uuid, claim_uuid, waiters, resp,
          issued, lastAdmit, lastHand, consumed, lastEnq, extVars, workerVars>>

Scopes == Places \X Sessions

\* a script entry of an export (ContextScriptItem); path NoneStr: no entry
NoScript ==
  [path |-> NoneStr, sha1 |-> NoneStr, bytes |-> None, source |-> NoneStr,
   sourceTruncated |-> FALSE]

\* a stored snapshot: the payload of an export with its contextVersion
NoCtx == [contextVersion |-> 0, fingerprint |-> NoneStr, script |-> NoScript]

NoDelta == [present |-> FALSE, scriptsAdded |-> 0, scriptsRemoved |-> 0, scriptsChanged |-> 0]

\* a job: its scope, createdAt, repairOf.transactionId, whether the file is in
\* jobs/ and whether the job is in _codex_jobs_index; root: the transaction
\* at the head of the chain of repairs the job belongs to
NoJob == [scope |-> <<None, NoneStr>>, createdAt |-> NoTime, repairOf |-> NoneStr,
          file |-> FALSE, index |-> FALSE, root |-> NoneStr]

\* the data of a response: kind "dict" for a JSON object, "list" for a JSON
\* array, "none" for no file; one editScript on path with expectedHash
NoData == [kind |-> "none", transactionId |-> NoneStr, actions |-> 0, path |-> NoneStr,
           expectedHash |-> NoHash, risk |-> FALSE]

WatchIdle == [pc |-> "sleep", todo |-> {}]

RecIdle == [pc |-> "sleep", keys |-> {}, key |-> <<None, NoneStr>>, current_version |-> 0,
            candidate |-> NoCtx]

NoResp ==
  [op |-> "none", status |-> "none", leaseToken |-> None, fence |-> 0,
   placeId |-> None, studioSessionId |-> NoneStr, clientId |-> NoneStr,
   takeover |-> FALSE, kind |-> "none", since |-> 0, claimToken |-> None,
   transactionId |-> NoneStr, claimTxId |-> NoneStr, seq |-> 0, remaining |-> 0,
   claimSeq |-> 0, outFence |-> 0, resumed |-> FALSE,
   prevClientId |-> NoneStr, prevSessionId |-> NoneStr,
   contextVersion |-> 0, fingerprint |-> NoneStr, mode |-> "none", script |-> NoScript,
   jobId |-> 0, expectedHash |-> NoHash, risk |-> FALSE, errors |-> FALSE, repairJob |-> 0]

NoEnq == [seq |-> 0, fence |-> 0]

NoHand == [seq |-> 0, since |-> 0]

EmptyMap == [t \in {} |-> 0]

\* -------------------------------------------------------------- helpers

\* _scope_key
scope_key(place_id, session_id) == <<place_id, session_id>>

\* a variant of _is_primary_alive that never lets a lease expire
IsPrimaryAliveNoTtl ==
  primary_lease_token # None

\* a variant of _is_primary_alive that takes every lease for expired
IsPrimaryAliveNever ==
  FALSE

\* _is_primary_alive
is_primary_alive ==
  IF primary_lease_token = None THEN FALSE
  ELSE (now - last_heartbeat) <= HEARTBEAT_TTL_SEC

\* a variant of the lease check that does not look at the fence
LeaseCheckTokenOnly(leaseToken, f) ==
  leaseToken = primary_lease_token

\* a variant of the lease check that turns away a lease whose heartbeat is
\* overdue
LeaseCheckAlive(leaseToken, f) ==
  leaseToken = primary_lease_token /\ f = fence /\ is_primary_alive

\* the lease check that opens sync, heartbeat, wait, receipt and release
lease_check(leaseToken, f) ==
  ~(leaseToken # primary_lease_token \/ f # fence)

\* a variant of _require_primary_scope that lets every scope pass
AnyScope(placeId, studioSessionId) == TRUE

\* _require_primary_scope
require_primary_scope(placeId, studioSessionId) ==
  ~(placeId # primary_place_id \/ studioSessionId # primary_session_id)

\* a variant of the fence bump that leaves the fence as it is
FenceKept(f) == f

\* _fence += 1
bump_fence(f) == f + 1

\* a variant of _next_seq_unlocked that leaves a gap
NextSeqSkips(s) == s + 2

\* _next_seq_unlocked
next_seq(s) == s + 1

\* a variant of _cleanup_claims_unlocked that drops every claim
CleanupDropsAll(cl) == [t \in {} |-> 0]

\* _cleanup_claims_unlocked: the claims table without the expired claims
cleanup_claims(cl) ==
  LET expired == {k \in DOMAIN cl : cl[k].expiresAt <= now}
  IN [k \in (DOMAIN cl) \ expired |-> cl[k]]

\* _save_queue_state_unlocked: seq and the items without claim state
save_queue_state(s, q) ==
  [seq |-> s,
   queue |-> [i \in 1..Len(q) |-> [seq |-> q[i].seq, tx |-> q[i].tx, scope |-> q[i].scope]]]

\* the item built by enqueue, enqueue_mock and _enqueue_tx_unlocked; enqFence
\* is history: the fence under which the item was built
new_item(s, tx, claim, sc) ==
  [seq |-> s, tx |-> tx, claimToken |-> claim, claimed |-> FALSE, scope |-> sc,
   enqFence |-> fence]

\* a variant of _queue.clear() that keeps the items
QueueKept(q) == q

\* _queue.clear()
clear_queue(q) == <<>>

\* a variant in which nobody is woken
NotifyNone(ws) == ws

\* cv.notify_all
notify_all(ws) == {[w EXCEPT !.notified = TRUE] : w \in ws}

InitState ==
  /\ primary_lease_token = None
  /\ primary_session_id = NoneStr
  /\ primary_client_id = NoneStr
  /\ primary_place_id = None
  /\ fence = 0
  /\ last_heartbeat = 0
  /\ seq = 0
  /\ queue = <<>>
  /\ claims = EmptyMap
  /\ disk = [seq |-> 0, queue |-> <<>>]
  /\ now = 0
  /\ lease_uuid = 0
  /\ claim_uuid = 0
  /\ waiters = {}
  /\ resp = NoResp
  /\ issued = {}
  /\ lastAdmit = "none"
  /\ lastHand = [sc \in Scopes |-> NoHand]
  /\ consumed = {}
  /\ lastEnq = [sc \in Scopes |-> NoEnq]
  /\ context_latest = [k \in Scopes |-> NoCtx]
  /\ context_versions = [k \in Scopes |-> 0]
  /\ context_deltas = [k \in Scopes |-> NoDelta]
  /\ context_fingerprints = [k \in Scopes |-> NoneStr]
  /\ context_last_export_at = [k \in Scopes |-> NoTime]
  /\ context_export_requests = {}
  /\ context_file = [k \in Scopes |-> NoCtx]
  /\ rec = RecIdle
  /\ lastStored = [k \in Scopes |-> 0]
  /\ resetDone = {}
  /\ codex_jobs = [j \in JobIds |-> NoJob]
  /\ codex_responses = [j \in JobIds |-> NoData]
  /\ codex_acks = [j \in JobIds |-> "none"]
  /\ codex_errors = {}
  /\ codex_tx_job_map = [t \in BridgeTxIds |-> 0]
  /\ codex_repair_attempts = [t \in BridgeTxIds |-> 0]
  /\ codex_repair_last = [t \in BridgeTxIds |-> NoTime]
  /\ job_uuid = 0
  /\ watch = WatchIdle
  /\ repairsOf = [t \in BridgeTxIds |-> 0]
  /\ lock_path = NoInode
  /\ inode_pid = [i \in Inodes |-> NoPid]
  /\ inode_flock = [i \in Inodes |-> NoPid]
  /\ worker_pc = [w \in Workers |-> "off"]
  /\ worker_fd = [w \in Workers |-> NoInode]
  /\ has_fcntl = "unknown"

\* the process started with PERSPONIFY_CONTEXT_MIN_INTERVAL_SEC unset
Init == InitState /\ context_min_interval = 0

\* the process started with the export throttle unset or set
InitCtx == InitState /\ context_min_interval \in MinIntervals

\* ------------------------------------------------------------- /register

\* the admit and the takeover branch: clear the scoped state, bump the fence,
\* mint a lease token
Admit(clientId, studioSessionId, placeId, takeover, kind) ==
  /\ lease_uuid < MaxLeases
  /\ lease_uuid' = lease_uuid + 1
  /\ queue' = clear_queue(queue)
  /\ claims' = EmptyMap
  /\ fence' = bump_fence(fence)
  /\ primary_lease_token' = lease_uuid + 1
  /\ primary_session_id' = studioSessionId
  /\ primary_client_id' = clientId
  /\ primary_place_id' = placeId
  /\ last_heartbeat' = now
  /\ disk' = save_queue_state(seq, queue')
  /\ issued' = issued \cup {<<lease_uuid + 1, fence'>>}
  /\ lastAdmit' = kind
  /\ resp' = [NoResp EXCEPT !.op = "register", !.status = "ok", !.kind = kind,
                            !.prevClientId = primary_client_id,
                            !.prevSessionId = primary_session_id,
                            !.leaseToken = lease_uuid + 1, !.fence = fence',
                            !.clientId = clientId, !.studioSessionId = studioSessionId,
                            !.placeId = placeId, !.takeover = takeover, !.seq = seq]
  /\ UNCHANGED <<extVars, seq, now, workerVars, claim_uuid, waiters, lastHand, consumed, lastEnq>>

Register(clientId, studioSessionId, placeId, takeover) ==
  LET expired == primary_lease_token # None /\ ~is_primary_alive
      token1 == IF expired THEN None ELSE primary_lease_token
  IN IF token1 = None
       THEN Admit(clientId, studioSessionId, placeId, takeover,
                  IF expired THEN "readmit" ELSE "admit")
     ELSE IF studioSessionId = primary_session_id /\ clientId = primary_client_id
       THEN /\ last_heartbeat' = now
            /\ resp' = [NoResp EXCEPT !.op = "register", !.status = "ok", !.kind = "reconnect",
                                      !.leaseToken = primary_lease_token, !.fence = fence,
                                      !.clientId = clientId, !.studioSessionId = studioSessionId,
                                      !.placeId = placeId, !.takeover = takeover, !.seq = seq]
            /\ UNCHANGED <<extVars, leaseVars, fence, queueVars, now, workerVars, lease_uuid, claim_uuid, waiters,
                           ghostVars>>
     ELSE IF takeover
       THEN Admit(clientId, studioSessionId, placeId, takeover, "takeover")
     ELSE /\ resp' = [NoResp EXCEPT !.op = "register", !.status = "PrimaryAlreadyRegistered",
                                    !.prevClientId = primary_client_id,
                                    !.prevSessionId = primary_session_id,
                                    !.clientId = clientId, !.studioSessionId = studioSessionId,
                                    !.placeId = placeId, !.takeover = takeover]
          /\ UNCHANGED <<extVars, leaseVars, fence, last_heartbeat, queueVars, now, workerVars, lease_uuid,
                         claim_uuid, waiters, ghostVars>>

\* -------------------------------------------------------------- /release
Release(leaseToken, f) ==
  IF ~lease_check(leaseToken, f)
    THEN /\ resp' = [NoResp EXCEPT !.op = "release", !.status = "FenceMismatch",
                                   !.leaseToken = leaseToken, !.fence = f]
         /\ UNCHANGED <<extVars, leaseVars, fence, last_heartbeat, queueVars, now, workerVars, lease_uuid,
                        claim_uuid, waiters, ghostVars>>
    ELSE /\ primary_lease_token' = None
         /\ primary_session_id' = NoneStr
         /\ primary_client_id' = NoneStr
         /\ primary_place_id' = None
         /\ last_heartbeat' = 0
         /\ disk' = save_queue_state(seq, queue)
         /\ waiters' = notify_all(waiters)
         /\ resp' = [NoResp EXCEPT !.op = "release", !.status = "ok",
                                   !.leaseToken = leaseToken, !.fence = f]
         /\ lastAdmit' = "none"
         /\ UNCHANGED <<extVars, fence, seq, queue, claims, now, workerVars, lease_uuid, claim_uuid, issued, lastHand,
                        consumed, lastEnq>>

\* the outcome of the lease check followed by _require_primary_scope
lease_status(leaseToken, f, placeId, studioSessionId) ==
  IF ~lease_check(leaseToken, f) THEN "FenceMismatch"
  ELSE IF ~require_primary_scope(placeId, studioSessionId) THEN "ScopeMismatch"
  ELSE "ok"

\* ----------------------------------------------------------------- /sync
Sync(leaseToken, f, placeId, studioSessionId) ==
  /\ resp' = [NoResp EXCEPT !.op = "sync",
                 !.status = lease_status(leaseToken, f, placeId, studioSessionId),
                 !.leaseToken = leaseToken, !.fence = f,
                 !.placeId = placeId, !.studioSessionId = studioSessionId, !.seq = seq]
  /\ UNCHANGED <<extVars, leaseVars, fence, last_heartbeat, queueVars, now, workerVars, lease_uuid, claim_uuid,
                 waiters, ghostVars>>

\* ------------------------------------------------------------ /heartbeat
Heartbeat(leaseToken, f, placeId, studioSessionId) ==
  LET status == lease_status(leaseToken, f, placeId, studioSessionId)
  IN /\ last_heartbeat' = IF status = "ok" THEN now ELSE last_heartbeat
     /\ resp' = [NoResp EXCEPT !.op = "heartbeat", !.status = status,
                    !.leaseToken = leaseToken, !.fence = f,
                    !.placeId = placeId, !.studioSessionId = studioSessionId, !.seq = seq]
     /\ UNCHANGED <<extVars, leaseVars, fence, queueVars, now, workerVars, lease_uuid, claim_uuid,
                    waiters, ghostVars>>

\* -------------------------------------------------- /enqueue, /enqueue_mock

\* _queue.append(item)
queue_append(q, item) == Append(q, item)

\* what enqueue, enqueue_mock and _enqueue_tx_unlocked do once the checks have
\* passed: take the next seq, mint a claim token, append, save, notify
EnqueueCore(base, op, tx, sc) ==
  LET s == next_seq(seq)
      claim == claim_uuid + 1
  IN /\ claim_uuid' = claim
     /\ seq' = s
     /\ queue' = queue_append(queue, new_item(s, tx, claim, sc))
     /\ disk' = save_queue_state(s, queue')
     /\ waiters' = notify_all(waiters)
     /\ lastEnq' = [lastEnq EXCEPT ![sc] = [seq |-> s, fence |-> fence]]
     /\ resp' = [base EXCEPT !.op = op, !.status = "ok", !.seq = s,
                    !.transactionId = tx.transactionId,
                    !.placeId = sc[1], !.studioSessionId = sc[2],
                    !.remaining = Len(queue')]
     /\ UNCHANGED <<leaseVars, fence, last_heartbeat, claims, now, workerVars, lease_uuid,
                    issued, lastAdmit, lastHand, consumed>>

\* enqueue and enqueue_mock touch nothing else
EnqueueItem(op, tx, sc) == EnqueueCore(NoResp, op, tx, sc) /\ UNCHANGED extVars

Rejected(op, status) ==
  /\ resp' = [NoResp EXCEPT !.op = op, !.status = status]
  /\ UNCHANGED <<extVars, leaseVars, fence, last_heartbeat, queueVars, now, workerVars, lease_uuid, claim_uuid,
                 waiters, ghostVars>>

\* a variant of the test of the queue cap that never finds the queue full
QueueNeverFull(q) == FALSE

\* len(_queue) >= MAX_QUEUE_SIZE
queue_full(q) == Len(q) >= MAX_QUEUE_SIZE

\* _normalize_actions maps the list action by action: the count stays
normalize_actions(nActions) == nActions

\* /enqueue with a transaction of nActions actions
Enqueue(protocolVersion, transactionId, nActions) ==
  IF protocolVersion # PROTOCOL_VERSION
    THEN Rejected("enqueue", "ProtocolVersionMismatch")
  ELSE IF primary_place_id = None \/ primary_session_id = NoneStr
    THEN Rejected("enqueue", "NoPrimary")
  ELSE IF queue_full(queue)
    THEN Rejected("enqueue", "QueueFull")
  ELSE EnqueueItem("enqueue",
                   [protocolVersion |-> protocolVersion, transactionId |-> transactionId,
                    actions |-> normalize_actions(nActions)],
                   scope_key(primary_place_id, primary_session_id))

\* _resolve_scope_auto, called with a primary registered
resolve_scope_auto(placeId, studioSessionId) ==
  IF placeId # None /\ studioSessionId # NoneStr
    THEN scope_key(placeId, studioSessionId)
    ELSE scope_key(primary_place_id, primary_session_id)

EnqueueMock(placeId, studioSessionId) ==
  IF primary_place_id = None \/ primary_session_id = NoneStr
    THEN Rejected("enqueue_mock", "NoPrimary")
  ELSE IF queue_full(queue)
    THEN Rejected("enqueue_mock", "QueueFull")
  ELSE LET sc == resolve_scope_auto(placeId, studioSessionId)
       IN IF ~require_primary_scope(sc[1], sc[2])
            THEN Rejected("enqueue_mock", "ScopeMismatch")
            ELSE EnqueueItem("enqueue_mock",
                             [protocolVersion |-> PROTOCOL_VERSION,
                              transactionId |-> "TX_MOCK_" \o ToString(next_seq(seq)),
                              actions |-> 2],
                             sc)

\* _validate_codex_actions, the test of the action count: TRUE when the list
\* is rejected
too_many_actions(nActions) == nActions > CODEX_MAX_ACTIONS

\* --------------------------------------------------------- context store

\* _script_fingerprint: the sha1 when given, else the hash of the source, else
\* the byte count, else "unknown"
script_fingerprint(s) ==
  IF s.sha1 # NoneStr THEN <<"sha1", s.sha1>>
  ELSE IF s.source # NoneStr THEN <<"sha1:source", s.source>>
  ELSE IF s.bytes # None THEN <<"bytes", ToString(s.bytes)>>
  ELSE <<"unknown", "">>

\* a variant of the merge that takes the sourceTruncated mark over with the
\* source
MergeKeepsMark(prev_script, script) ==
  IF script.path = NoneStr \/ script.source # NoneStr
       \/ prev_script.path # script.path \/ prev_script.source = NoneStr
    THEN script
    ELSE [script EXCEPT !.source = prev_script.source,
                        !.sourceTruncated = prev_script.sourceTruncated]

\* the body of the for loop of _merge_context_sources for one script
merge_script(prev_script, script) ==
  IF script.path = NoneStr \/ script.source # NoneStr THEN script
  ELSE IF prev_script.path # script.path \/ prev_script.source = NoneStr THEN script
  ELSE IF script.sha1 # NoneStr /\ prev_script.sha1 # NoneStr /\ script.sha1 # prev_script.sha1
    THEN script
  ELSE IF script.sha1 = NoneStr /\ script.bytes # None /\ prev_script.bytes # None
            /\ script.bytes # prev_script.bytes
    THEN script
  ELSE [script EXCEPT !.source = prev_script.source, !.sourceTruncated = FALSE]

\* _merge_context_sources, for a payload whose meta has a scope
merge_context_sources(prev, curr, mode) ==
  IF prev = NoCtx \/ mode # "diff" THEN curr
  ELSE [curr EXCEPT !.script = merge_script(prev.script, curr.script)]

\* _compute_context_delta, the script counts
compute_context_delta(prev, curr) ==
  LET p == prev.script.path
      c == curr.script.path
  IN [present |-> TRUE,
      scriptsAdded |-> IF c # NoneStr /\ c # p THEN 1 ELSE 0,
      scriptsRemoved |-> IF p # NoneStr /\ p # c THEN 1 ELSE 0,
      scriptsChanged |-> IF c # NoneStr /\ c = p
                             /\ script_fingerprint(prev.script) # script_fingerprint(curr.script)
                           THEN 1 ELSE 0]

\* the throttle test of context_export; a key never exported has no entry and
\* its default 0.0 lies far behind the wall clock
throttled(k) ==
  /\ context_min_interval > 0
  /\ context_last_export_at[k] # NoTime
  /\ now - context_last_export_at[k] < context_min_interval

\* /context/export with projectKey "default"
ContextExport(placeId, studioSessionId, fp, mode, script) ==
  /\ UNCHANGED <<coreVars, bridgeVars>>
  /\ LET k == resolve_scope_auto(placeId, studioSessionId)
         base == [NoResp EXCEPT !.op = "context_export", !.placeId = k[1],
                                !.studioSessionId = k[2], !.fingerprint = fp, !.mode = mode,
                                !.script = script]
         prev == context_latest[k]
         version == context_versions[k] + 1
         payload == [contextVersion |-> version, fingerprint |-> fp, script |-> script]
         merged == merge_context_sources(prev, payload, mode)
     IN IF primary_place_id = None \/ primary_session_id = NoneStr
          THEN /\ resp' = [base EXCEPT !.status = "NoPrimary", !.placeId = placeId,
                                        !.studioSessionId = studioSessionId]
               /\ UNCHANGED <<ctxVars>>
        ELSE IF ~require_primary_scope(k[1], k[2])
          THEN /\ resp' = [base EXCEPT !.status = "ScopeMismatch"]
               /\ UNCHANGED <<ctxVars>>
        ELSE IF throttled(k)
          THEN /\ context_export_requests' = context_export_requests \ {k}
               /\ resp' = [base EXCEPT !.status = "throttled",
                                        !.contextVersion = context_versions[k]]
               /\ UNCHANGED <<context_latest, context_versions, context_deltas,
                              context_fingerprints, context_last_export_at, context_file,
                              context_min_interval, rec, lastStored, resetDone>>
        ELSE IF fp # NoneStr /\ context_fingerprints[k] = fp
          THEN /\ context_export_requests' = context_export_requests \ {k}
               /\ context_last_export_at' = [context_last_export_at EXCEPT ![k] = now]
               /\ resp' = [base EXCEPT !.status = "unchanged",
                                        !.contextVersion = context_versions[k]]
               /\ UNCHANGED <<context_latest, context_versions, context_deltas,
                              context_fingerprints, context_file, context_min_interval, rec,
                              lastStored, resetDone>>
        ELSE IF prev # NoCtx /\ mode = "noscope"
          \* meta.get("scope") is None and scope.get raises: the handler answers 500
          \* with the version and the fingerprint already written
          THEN /\ context_export_requests' = context_export_requests \ {k}
               /\ context_versions' = [context_versions EXCEPT ![k] = version]
               /\ context_fingerprints' =
                    IF fp # NoneStr THEN [context_fingerprints EXCEPT ![k] = fp]
                    ELSE context_fingerprints
               /\ resp' = [base EXCEPT !.status = "error"]
               /\ UNCHANGED <<context_latest, context_deltas, context_last_export_at,
                              context_file, context_min_interval, rec, lastStored, resetDone>>
        ELSE /\ context_export_requests' = context_export_requests \ {k}
             /\ context_versions' = [context_versions EXCEPT ![k] = version]
             /\ context_fingerprints' =
                  IF fp # NoneStr THEN [context_fingerprints EXCEPT ![k] = fp]
                  ELSE context_fingerprints
             /\ context_deltas' = [context_deltas EXCEPT ![k] = compute_context_delta(prev, merged)]
             /\ context_latest' = [context_latest EXCEPT ![k] = merged]
             /\ context_last_export_at' = [context_last_export_at EXCEPT ![k] = now]
             /\ context_file' = [context_file EXCEPT ![k] = merged]
             /\ lastStored' = [lastStored EXCEPT ![k] = version]
             /\ resetDone' = resetDone \ {k}
             /\ resp' = [base EXCEPT !.status = "stored", !.contextVersion = version]
             /\ UNCHANGED <<context_min_interval, rec>>

\* _get_cached_context: the snapshot in memory, else the snapshot file, which
\* is then cached with its version
get_cached_context(k) ==
  IF context_latest[k] # NoCtx THEN context_latest[k] ELSE context_file[k]

\* /context/latest with projectKey "default"
ContextLatest(placeId, studioSessionId) ==
  LET k == resolve_scope_auto(placeId, studioSessionId)
      data == get_cached_context(k)
      base == [NoResp EXCEPT !.op = "context_latest", !.placeId = k[1],
                             !.studioSessionId = k[2]]
  IN /\ UNCHANGED <<coreVars, bridgeVars, context_deltas, context_fingerprints, context_last_export_at,
                    context_export_requests, context_file, context_min_interval, rec,
                    lastStored, resetDone>>
     /\ IF k = <<None, NoneStr>>
          THEN /\ resp' = [base EXCEPT !.status = "NoScope"]
               /\ UNCHANGED <<context_latest, context_versions>>
        ELSE IF data = NoCtx
          THEN /\ resp' = [base EXCEPT !.status = "NoContext"]
               /\ UNCHANGED <<context_latest, context_versions>>
        ELSE /\ context_latest' = [context_latest EXCEPT ![k] = data]
             /\ context_versions' =
                  IF context_latest[k] # NoCtx THEN context_versions
                  ELSE [context_versions EXCEPT ![k] = data.contextVersion]
             /\ resp' = [base EXCEPT !.status = "ok",
                                      !.contextVersion = context_versions'[k],
                                      !.fingerprint = data.fingerprint, !.script = data.script]

\* /context/reset with projectKey "default", up to the removal of the files:
\* the checks and the removal of the key from the maps in memory
ContextResetBegin(placeId, studioSessionId) ==
  LET k == resolve_scope_auto(placeId, studioSessionId)
      base == [NoResp EXCEPT !.op = "context_reset", !.placeId = k[1],
                             !.studioSessionId = k[2]]
  IN /\ UNCHANGED <<coreVars, bridgeVars, context_export_requests, context_file, context_min_interval,
                    rec, lastStored>>
     /\ IF primary_place_id = None \/ primary_session_id = NoneStr
          THEN /\ resp' = [base EXCEPT !.status = "NoPrimary"]
               /\ UNCHANGED <<context_latest, context_versions, context_deltas,
                              context_fingerprints, context_last_export_at, resetDone>>
        ELSE IF ~require_primary_scope(k[1], k[2])
          THEN /\ resp' = [base EXCEPT !.status = "ScopeMismatch"]
               /\ UNCHANGED <<context_latest, context_versions, context_deltas,
                              context_fingerprints, context_last_export_at, resetDone>>
        ELSE IF context_latest[k] = NoCtx
          THEN /\ resp' = [base EXCEPT !.status = "ok", !.kind = "nothing"]
               /\ resetDone' = resetDone \cup {k}
               /\ UNCHANGED <<context_latest, context_versions, context_deltas,
                              context_fingerprints, context_last_export_at>>
        ELSE /\ context_latest' = [context_latest EXCEPT ![k] = NoCtx]
             /\ context_versions' = [context_versions EXCEPT ![k] = 0]
             /\ context_deltas' = [context_deltas EXCEPT ![k] = NoDelta]
             /\ context_last_export_at' = [context_last_export_at EXCEPT ![k] = NoTime]
             /\ context_fingerprints' = [context_fingerprints EXCEPT ![k] = NoneStr]
             /\ resp' = [base EXCEPT !.status = "running"]
             /\ UNCHANGED resetDone

\* /context/reset from the removal of the snapshot file to its return
ContextResetFinish ==
  /\ resp.op = "context_reset"
  /\ resp.status = "running"
  /\ context_file' = [context_file EXCEPT ![<<resp.placeId, resp.studioSessionId>>] = NoCtx]
  /\ resetDone' = resetDone \cup {<<resp.placeId, resp.studioSessionId>>}
  /\ resp' = [resp EXCEPT !.status = "ok", !.kind = "deleted"]
  /\ UNCHANGED <<coreVars, bridgeVars, ctxMem, context_min_interval, rec, lastStored>>

\* _reconcile_loop wakes and _reconcile_contexts lists the keys in memory; the
\* reconciler thread takes no lock
ReconcileStart ==
  /\ rec.pc = "sleep"
  /\ rec' = [RecIdle EXCEPT !.pc = "loop",
                            !.keys = {k \in Scopes : context_latest[k] # NoCtx}]
  /\ UNCHANGED <<coreVars, bridgeVars, resp, ctxMem, context_file, context_min_interval, lastStored, resetDone>>

\* the head of the for loop: the next key and its version in memory, or the
\* end of the pass
ReconcileKey ==
  /\ rec.pc = "loop"
  /\ IF rec.keys = {}
       THEN rec' = RecIdle
       ELSE \E k \in rec.keys :
              rec' = [rec EXCEPT !.pc = "load", !.keys = rec.keys \ {k}, !.key = k,
                                 !.current_version = context_versions[k]]
  /\ UNCHANGED <<coreVars, bridgeVars, resp, ctxMem, context_file, context_min_interval, lastStored, resetDone>>

\* _load_context_from_disk
ReconcileLoad ==
  /\ rec.pc = "load"
  /\ rec' = [rec EXCEPT !.pc = "apply", !.candidate = context_file[rec.key]]
  /\ UNCHANGED <<coreVars, bridgeVars, resp, ctxMem, context_file, context_min_interval, lastStored, resetDone>>

\* the snapshot of the file replaces the one in memory when its version is
\* above the version read at the head of the loop
ReconcileApply ==
  /\ rec.pc = "apply"
  /\ rec' = [rec EXCEPT !.pc = "loop", !.candidate = NoCtx, !.current_version = 0,
                        !.key = <<None, NoneStr>>]
  /\ IF rec.candidate # NoCtx /\ rec.candidate.contextVersion > rec.current_version
       THEN /\ context_latest' = [context_latest EXCEPT ![rec.key] = rec.candidate]
            /\ context_versions' =
                 [context_versions EXCEPT ![rec.key] = rec.candidate.contextVersion]
            /\ context_deltas' =
                 [context_deltas EXCEPT
                    ![rec.key] = compute_context_delta(context_latest[rec.key], rec.candidate)]
       ELSE UNCHANGED <<context_latest, context_versions, context_deltas>>
  /\ UNCHANGED <<coreVars, bridgeVars, resp, context_fingerprints, context_last_export_at,
                 context_export_requests, context_file, context_min_interval, lastStored, resetDone>>

\* ------------------------------------------------------------ job bridge

\* the transactionId of a response that names none
tx_codex(job_id) == "TX_CODEX_" \o ToString(job_id)

\* _lookup_script_hash for the path of the response's editScript
lookup_script_hash(context, path) ==
  IF context = NoCtx \/ context.script.path # path THEN NoHash
  ELSE script_fingerprint(context.script)

\* the expectedHash test of _validate_codex_actions: TRUE when the action is
\* rejected, for want of a cached hash or for a different one
hash_rejected(expected, actual) == expected # NoHash /\ actual # expected

\* a variant of _queue_context_export_request that records nothing
RequestNothing(sc) == context_export_requests

\* _queue_context_export_request: the request is recorded when the scope is
\* the primary scope
queue_context_export_request(sc) ==
  IF primary_place_id = None \/ primary_session_id = NoneStr THEN context_export_requests
  ELSE IF ~require_primary_scope(sc[1], sc[2]) THEN context_export_requests
  ELSE context_export_requests \cup {sc}

\* _write_ack for the job, after _write_error when the ack records a failure,
\* with resp_path.unlink() where the code has it
write_ack(job_id, status, unlink) ==
  /\ codex_acks' = [codex_acks EXCEPT ![job_id] = status]
  /\ codex_errors' = IF status = "ok" THEN codex_errors ELSE codex_errors \cup {job_id}
  /\ codex_responses' =
       IF unlink THEN [codex_responses EXCEPT ![job_id] = NoData] ELSE codex_responses

\* _codex_jobs_index.get(job_id) or _load_job_from_disk(job_id)
lookup_job(job_id) ==
  IF codex_jobs[job_id].index \/ codex_jobs[job_id].file THEN codex_jobs[job_id] ELSE NoJob

\* what _get_cached_context leaves in memory for the key k
cache_context(k) ==
  /\ context_latest' = [context_latest EXCEPT ![k] = get_cached_context(k)]
  /\ context_versions' =
       IF context_latest[k] # NoCtx \/ context_file[k] = NoCtx THEN context_versions
       ELSE [context_versions EXCEPT ![k] = context_file[k].contextVersion]

\* a variant of _should_auto_repair that repairs only what the bridge enqueued
RepairBridgeOnly(tx_id) ==
  /\ CODEX_AUTO_REPAIR
  /\ codex_tx_job_map[tx_id] # 0
  /\ codex_repair_attempts[tx_id] < CODEX_REPAIR_MAX_ATTEMPTS
  /\ (codex_repair_last[tx_id] = NoTime
        \/ now - codex_repair_last[tx_id] >= CODEX_REPAIR_COOLDOWN_SEC)

\* _should_auto_repair for a non-empty tx_id; _now() is the wall clock, so a
\* transaction with no entry in _codex_repair_last is past the cooldown
should_auto_repair(tx_id) ==
  /\ CODEX_AUTO_REPAIR
  /\ codex_repair_attempts[tx_id] < CODEX_REPAIR_MAX_ATTEMPTS
  /\ (codex_repair_last[tx_id] = NoTime
        \/ now - codex_repair_last[tx_id] >= CODEX_REPAIR_COOLDOWN_SEC)

\* the transaction at the head of the chain of repairs that a repair of tx_id
\* continues: tx_id itself unless the job it came from is a repair job
repair_root(tx_id) ==
  IF codex_tx_job_map[tx_id] # 0 /\ codex_jobs[codex_tx_job_map[tx_id]].root # NoneStr
    THEN codex_jobs[codex_tx_job_map[tx_id]].root
    ELSE tx_id

\* _process_codex_response for the response data to the job job_id; job is
\* what _codex_jobs_index or the jobs directory holds under job_id, resp_path
\* is TRUE when the data was read from a file of responses/; the caller says
\* what becomes of the watcher
ProcessCodexResponse(job_id, job, data, resp_path) ==
  LET actions == normalize_actions(data.actions)
      tx == [protocolVersion |-> PROTOCOL_VERSION,
             transactionId |-> IF data.transactionId # NoneStr THEN data.transactionId
                               ELSE tx_codex(job_id),
             actions |-> actions]
      sc == job.scope
      context == get_cached_context(sc)
      badHash == hash_rejected(data.expectedHash, lookup_script_hash(context, data.path))
      base == [NoResp EXCEPT !.op = "bridge", !.jobId = job_id, !.placeId = sc[1],
                             !.studioSessionId = sc[2], !.expectedHash = data.expectedHash,
                             !.risk = data.risk]
      fixed == <<context_deltas, context_fingerprints, context_last_export_at, context_file,
                 context_min_interval, rec, lastStored, resetDone, codex_jobs,
                 codex_repair_attempts, codex_repair_last, job_uuid, repairsOf>>
  IN IF job = NoJob
       THEN /\ write_ack(job_id, "JobNotFound", FALSE)
            /\ resp' = [base EXCEPT !.status = "JobNotFound"]
            /\ UNCHANGED <<coreVars, fixed, context_latest, context_versions,
                           context_export_requests, codex_tx_job_map>>
     ELSE IF primary_place_id = None \/ primary_session_id = NoneStr
       THEN IF job.createdAt = NoTime \/ now - job.createdAt > CODEX_JOB_TTL_SEC
              THEN /\ write_ack(job_id, "NoPrimary", FALSE)
                   /\ resp' = [base EXCEPT !.status = "NoPrimary"]
                   /\ UNCHANGED <<coreVars, fixed, context_latest, context_versions,
                                  context_export_requests, codex_tx_job_map>>
              ELSE /\ resp' = [base EXCEPT !.status = "Deferred"]
                   /\ UNCHANGED <<coreVars, fixed, context_latest, context_versions,
                                  context_export_requests, codex_tx_job_map, codex_acks, codex_errors,
                                  codex_responses>>
     ELSE IF actions = 0
       THEN /\ write_ack(job_id, "NoActions", resp_path)
            /\ resp' = [base EXCEPT !.status = "NoActions"]
            /\ UNCHANGED <<coreVars, fixed, context_latest, context_versions,
                           context_export_requests, codex_tx_job_map>>
     ELSE IF data.risk
       THEN /\ write_ack(job_id, "RiskTooHigh", resp_path)
            /\ resp' = [base EXCEPT !.status = "RiskTooHigh"]
            /\ UNCHANGED <<coreVars, fixed, context_latest, context_versions,
                           context_export_requests, codex_tx_job_map>>
     ELSE IF too_many_actions(actions) \/ badHash
       THEN /\ cache_context(sc)
            /\ context_export_requests' =
                 IF badHash THEN queue_context_export_request(sc)
                 ELSE context_export_requests
            /\ write_ack(job_id, "ActionValidation", resp_path)
            /\ resp' = [base EXCEPT !.status = "ActionValidation"]
            /\ UNCHANGED <<coreVars, fixed, codex_tx_job_map>>
     ELSE IF ~require_primary_scope(sc[1], sc[2])
       THEN /\ cache_context(sc)
            /\ write_ack(job_id, "ScopeMismatch", FALSE)
            /\ resp' = [base EXCEPT !.status = "ScopeMismatch"]
            /\ UNCHANGED <<coreVars, fixed, context_export_requests, codex_tx_job_map>>
     ELSE IF queue_full(queue)
       THEN /\ cache_context(sc)
            /\ write_ack(job_id, "QueueFull", FALSE)
            /\ resp' = [base EXCEPT !.status = "QueueFull"]
            /\ UNCHANGED <<coreVars, fixed, context_export_requests, codex_tx_job_map>>
     ELSE /\ cache_context(sc)
          /\ EnqueueCore(base, "bridge", tx, sc)
          /\ codex_tx_job_map' = [codex_tx_job_map EXCEPT ![tx.transactionId] = job_id]
          /\ write_ack(job_id, "ok", resp_path)
          /\ UNCHANGED <<fixed, context_export_requests>>

\* /codex/response: the payload is the response, no file is involved
CodexResponse(job_id, data) ==
  /\ ProcessCodexResponse(job_id, lookup_job(job_id), data, FALSE)
  /\ UNCHANGED watch

\* /codex/job with projectKey "default"
CodexJob(placeId, studioSessionId) ==
  LET k == resolve_scope_auto(placeId, studioSessionId)
      base == [NoResp EXCEPT !.op = "codex_job", !.placeId = k[1], !.studioSessionId = k[2]]
      job == [scope |-> k, createdAt |-> now, repairOf |-> NoneStr, file |-> TRUE,
              index |-> TRUE, root |-> NoneStr]
      fixed == <<context_deltas, context_fingerprints, context_last_export_at,
                 context_export_requests, context_file, context_min_interval, rec, lastStored,
                 resetDone, codex_responses, codex_acks, codex_errors, codex_tx_job_map,
                 codex_repair_attempts, codex_repair_last, watch, repairsOf>>
  IN /\ UNCHANGED <<coreVars, fixed>>
     /\ IF primary_place_id = None \/ primary_session_id = NoneStr
          THEN /\ resp' = [base EXCEPT !.status = "NoPrimary"]
               /\ UNCHANGED <<context_latest, context_versions, codex_jobs, job_uuid>>
        ELSE IF ~require_primary_scope(k[1], k[2])
          THEN /\ resp' = [base EXCEPT !.status = "ScopeMismatch"]
               /\ UNCHANGED <<context_latest, context_versions, codex_jobs, job_uuid>>
        ELSE /\ job_uuid < MaxJobs
             /\ job_uuid' = job_uuid + 1
             /\ cache_context(k)
             /\ codex_jobs' = [codex_jobs EXCEPT ![job_uuid + 1] = job]
             /\ resp' = [base EXCEPT !.status = "ok", !.jobId = job_uuid + 1,
                                      !.contextVersion = context_versions'[k]]

\* the worker's job loop for one job file: a job with an ack or a response is
\* passed over, else the response goes into responses/
WriteResponse(job_id, data) ==
  /\ codex_jobs[job_id].file
  /\ codex_acks[job_id] = "none"
  /\ codex_responses[job_id] = NoData
  /\ codex_responses' = [codex_responses EXCEPT ![job_id] = data]
  /\ UNCHANGED <<coreVars, resp, ctxVars, codex_jobs, codex_acks, codex_errors, codex_tx_job_map,
                 codex_repair_attempts, codex_repair_last, job_uuid, watch, repairsOf>>

\* the jobs _sweep_codex_jobs expires: no ack, no response, older than the TTL
stale_jobs ==
  {j \in JobIds : /\ codex_jobs[j].file
                  /\ codex_acks[j] = "none"
                  /\ codex_responses[j] = NoData
                  /\ codex_jobs[j].createdAt # NoTime
                  /\ now - codex_jobs[j].createdAt > CODEX_JOB_TTL_SEC}

\* _codex_watch_loop wakes up: _sweep_codex_jobs, then the glob of responses/
WatchStart ==
  /\ watch.pc = "sleep"
  /\ codex_acks' = [j \in JobIds |-> IF j \in stale_jobs THEN "Expired" ELSE codex_acks[j]]
  /\ codex_errors' = codex_errors \cup stale_jobs
  /\ codex_jobs' = [j \in JobIds |->
                      IF j \in stale_jobs THEN [codex_jobs[j] EXCEPT !.file = FALSE]
                      ELSE codex_jobs[j]]
  /\ LET found == {j \in JobIds : codex_responses[j] # NoData}
     IN watch' = [pc |-> IF found = {} THEN "sleep" ELSE "scan", todo |-> found]
  /\ UNCHANGED <<coreVars, resp, ctxVars, codex_responses, codex_tx_job_map,
                 codex_repair_attempts, codex_repair_last, job_uuid, repairsOf>>

\* _sweep_codex_jobs taken one file operation at a time, as the worker
\* process sees it. First the tests of one job file: no ack, no response,
\* older than the TTL.
SweepCheck(job_id) ==
  /\ watch.pc = "sleep"
  /\ job_id \in stale_jobs
  /\ watch' = [pc |-> "expire", todo |-> {job_id}]
  /\ UNCHANGED <<coreVars, resp, ctxVars, codex_jobs, codex_responses, codex_acks,
                 codex_errors, codex_tx_job_map, codex_repair_attempts, codex_repair_last,
                 job_uuid, repairsOf>>

\* then the writes for the job that passed the tests: the error file, the ack
\* "Codex job expired" and the unlink of the job file, with no second look at
\* acks/ and responses/
SweepExpire ==
  /\ watch.pc = "expire"
  /\ codex_acks' = [j \in JobIds |-> IF j \in watch.todo THEN "Expired" ELSE codex_acks[j]]
  /\ codex_errors' = codex_errors \cup watch.todo
  /\ codex_jobs' = [j \in JobIds |->
                      IF j \in watch.todo THEN [codex_jobs[j] EXCEPT !.file = FALSE]
                      ELSE codex_jobs[j]]
  /\ watch' = WatchIdle
  /\ UNCHANGED <<coreVars, resp, ctxVars, codex_responses, codex_tx_job_map,
                 codex_repair_attempts, codex_repair_last, job_uuid, repairsOf>>

\* what is left of the pass after an exception that the for loop does not
\* handle: the except clause is outside the loop, the pass ends
abort_pass(todo, job_id) == {}

\* one iteration of the for loop of _codex_watch_loop, for the response of
\* job_id; the glob yields the files in no particular order
WatchStep(job_id) ==
  LET data == codex_responses[job_id]
      rest == watch.todo \ {job_id}
      after(todo) == [pc |-> IF todo = {} THEN "sleep" ELSE "scan", todo |-> todo]
      idle == <<coreVars, ctxVars, codex_jobs, codex_tx_job_map, codex_repair_attempts,
                codex_repair_last, job_uuid, repairsOf>>
  IN /\ watch.pc = "scan"
     /\ job_id \in watch.todo
     /\ IF codex_acks[job_id] # "none" \/ data = NoData
          THEN /\ watch' = after(rest)
               /\ UNCHANGED <<idle, resp, codex_acks, codex_errors, codex_responses>>
        ELSE IF data.kind = "text"
          \* json.loads raises: "Response parse failed"
          THEN /\ watch' = after(rest)
               /\ codex_acks' = [codex_acks EXCEPT ![job_id] = "ParseFailed"]
               /\ codex_errors' = codex_errors \cup {job_id}
               /\ resp' = [NoResp EXCEPT !.op = "bridge", !.jobId = job_id,
                                         !.status = "ParseFailed"]
               /\ UNCHANGED <<idle, codex_responses>>
        ELSE IF data.kind = "list"
          \* data.get raises AttributeError
          THEN /\ watch' = after(abort_pass(watch.todo, job_id))
               /\ UNCHANGED <<idle, resp, codex_acks, codex_errors, codex_responses>>
        ELSE /\ watch' = after(rest)
             /\ ProcessCodexResponse(job_id, lookup_job(job_id), data, TRUE)

\* _process_codex_response as the watcher runs it, taken in its two parts.
\* First the part outside _cv for a response that passes it: the job is
\* found, a primary is registered, the actions are valid against the cached
\* context, expectedHash included.
WatchValidate(job_id) ==
  LET data == codex_responses[job_id]
      job == lookup_job(job_id)
      context == get_cached_context(job.scope)
  IN /\ watch.pc = "scan"
     /\ job_id \in watch.todo
     /\ codex_acks[job_id] = "none"
     /\ data.kind = "dict"
     /\ job # NoJob
     /\ primary_place_id # None /\ primary_session_id # NoneStr
     /\ normalize_actions(data.actions) # 0
     /\ ~data.risk
     /\ ~too_many_actions(normalize_actions(data.actions))
     /\ ~hash_rejected(data.expectedHash, lookup_script_hash(context, data.path))
     /\ cache_context(job.scope)
     /\ watch' = [pc |-> "validated", todo |-> {job_id}]
     /\ UNCHANGED <<coreVars, resp, context_deltas, context_fingerprints,
                    context_last_export_at, context_export_requests, context_file,
                    context_min_interval, rec, lastStored, resetDone, codex_jobs,
                    codex_responses, codex_acks, codex_errors, codex_tx_job_map,
                    codex_repair_attempts, codex_repair_last, job_uuid, repairsOf>>

\* then the part under _cv, which tests the primary, its scope and the queue
\* length and enqueues; it does not read expectedHash or the context again
WatchEnqueue ==
  /\ watch.pc = "validated"
  /\ watch' = WatchIdle
  /\ \E job_id \in watch.todo :
       ProcessCodexResponse(job_id, lookup_job(job_id),
                            [codex_responses[job_id] EXCEPT !.expectedHash = NoHash], TRUE)

\* ----------------------------------------------------------------- /wait

\* a variant of the test of find_next that skips the item whose seq is since
EligibleAbove(q, sc, since) ==
  {i \in DOMAIN q : q[i].scope = sc /\ q[i].seq > since /\ ~q[i].claimed}

\* the condition of find_next: the items of the scope with seq >= since that
\* are not claimed
eligible(q, sc, since) ==
  {i \in DOMAIN q : q[i].scope = sc /\ q[i].seq >= since /\ ~q[i].claimed}

\* a variant of find_next that returns the last such item
FindLast(q, sc, since) ==
  LET m == eligible(q, sc, since)
  IN IF m = {} THEN 0 ELSE CHOOSE i \in m : \A j \in m : j <= i

\* find_next: the index of the first such item in list order, 0 when there is
\* none
find_next(q, sc, since) ==
  LET m == eligible(q, sc, since)
  IN IF m = {} THEN 0 ELSE CHOOSE i \in m : \A j \in m : i <= j

\* one pass of the while loop of wait_for_tx, for the call w
WaitLoop(w, resumed) ==
  LET cl == cleanup_claims(claims)
      sc == scope_key(w.placeId, w.studioSessionId)
      i == find_next(queue, sc, w.since)
      base == [NoResp EXCEPT !.op = "wait", !.leaseToken = w.leaseToken, !.fence = w.fence,
                  !.placeId = w.placeId, !.studioSessionId = w.studioSessionId,
                  !.since = w.since, !.resumed = resumed]
  IN IF i # 0
       THEN /\ queue' = [queue EXCEPT ![i].claimed = TRUE]
            /\ claims' = (queue[i].claimToken :>
                            [expiresAt |-> now + CLAIM_TTL_SEC, seq |-> queue[i].seq,
                             txId |-> queue[i].tx.transactionId, scope |-> sc]) @@ cl
            /\ lastHand' = [lastHand EXCEPT ![sc] = [seq |-> queue[i].seq, since |-> w.since]]
            /\ waiters' = waiters \ {w}
            /\ resp' = [base EXCEPT !.status = "ok", !.seq = queue[i].seq,
                           !.outFence = fence, !.claimToken = queue[i].claimToken,
                           !.transactionId = queue[i].tx.transactionId]
            /\ UNCHANGED <<extVars, leaseVars, fence, last_heartbeat, seq, disk, now, workerVars, lease_uuid,
                           claim_uuid, issued, lastAdmit, consumed, lastEnq>>
     ELSE IF w.deadline - now <= 0
       THEN /\ claims' = cl
            /\ waiters' = waiters \ {w}
            /\ resp' = [base EXCEPT !.status = "empty"]
            /\ UNCHANGED <<extVars, leaseVars, fence, last_heartbeat, seq, queue, disk, now, workerVars, lease_uuid,
                           claim_uuid, ghostVars>>
     ELSE /\ claims' = cl
          /\ Cardinality(waiters \ {w}) < MaxWaiters
          /\ waiters' = (waiters \ {w}) \cup {[w EXCEPT !.notified = FALSE]}
          /\ resp' = IF resumed THEN NoResp ELSE [base EXCEPT !.status = "blocked"]
          /\ UNCHANGED <<extVars, leaseVars, fence, last_heartbeat, seq, queue, disk, now, workerVars, lease_uuid,
                         claim_uuid, ghostVars>>

\* wait_for_tx up to its first _cv.wait
WaitCall(leaseToken, f, since, placeId, studioSessionId, timeoutSec) ==
  LET status == lease_status(leaseToken, f, placeId, studioSessionId)
      free == {n \in 1..(MaxWaiters + 1) : \A x \in waiters : x.id # n}
      w == [id |-> CHOOSE n \in free : \A m \in free : n <= m,
            leaseToken |-> leaseToken, fence |-> f,
            placeId |-> placeId, studioSessionId |-> studioSessionId, since |-> since,
            deadline |-> now + (IF timeoutSec = 0 THEN DEFAULT_WAIT_TIMEOUT_SEC ELSE timeoutSec),
            notified |-> FALSE]
  IN IF status # "ok"
       THEN /\ resp' = [NoResp EXCEPT !.op = "wait", !.status = status,
                           !.leaseToken = leaseToken, !.fence = f, !.placeId = placeId,
                           !.studioSessionId = studioSessionId, !.since = since]
            /\ UNCHANGED <<extVars, leaseVars, fence, last_heartbeat, queueVars, now, workerVars, lease_uuid,
                           claim_uuid, waiters, ghostVars>>
       ELSE WaitLoop(w, FALSE)

\* wait_for_tx after _cv.wait has returned, on a notify_all or on its timeout
WaitResume(w) ==
  /\ w \in waiters
  /\ w.notified \/ now >= w.deadline
  /\ WaitLoop(w, TRUE)

\* -------------------------------------------------------------- /receipt

\* a variant of the removal that pops the head of the queue
RemoveHead(q, sc, s) ==
  IF q = <<>> THEN q ELSE Tail(q)

\* the for loop of receipt: pop the first item of the scope with the claim's seq
remove_by_seq(q, sc, s) ==
  LET m == {i \in DOMAIN q : q[i].scope = sc /\ q[i].seq = s}
  IN IF m = {} THEN q
     ELSE LET k == CHOOSE i \in m : \A j \in m : i <= j
          IN [i \in 1..(Len(q) - 1) |-> IF i < k THEN q[i] ELSE q[i + 1]]

\* a variant of the receipt that keeps the claim
ClaimKept(cl, claimToken) == cl

\* del _claims[inp.claimToken]
discard_claim(cl, claimToken) ==
  [k \in (DOMAIN cl) \ {claimToken} |-> cl[k]]

Receipt(leaseToken, f, placeId, studioSessionId, claimToken, transactionId, errors) ==
  LET status == lease_status(leaseToken, f, placeId, studioSessionId)
      cl == cleanup_claims(claims)
      sc == scope_key(placeId, studioSessionId)
      base == [NoResp EXCEPT !.op = "receipt", !.leaseToken = leaseToken, !.fence = f,
                  !.placeId = placeId, !.studioSessionId = studioSessionId,
                  !.claimToken = claimToken, !.transactionId = transactionId,
                  !.errors = errors]
      repair == errors /\ transactionId # NoneStr /\ should_auto_repair(transactionId)
      repair_job == [scope |-> sc, createdAt |-> now, repairOf |-> transactionId,
                     file |-> TRUE, index |-> TRUE, root |-> repair_root(transactionId)]
  IN IF status # "ok"
       THEN /\ resp' = [base EXCEPT !.status = status]
            /\ UNCHANGED <<extVars, leaseVars, fence, last_heartbeat, queueVars, now, workerVars, lease_uuid,
                           claim_uuid, waiters, ghostVars>>
     ELSE IF claimToken \notin DOMAIN cl \/ cl[claimToken].scope # sc
       THEN /\ claims' = cl
            /\ resp' = [base EXCEPT !.status = "ClaimInvalidOrExpired"]
            /\ UNCHANGED <<extVars, leaseVars, fence, last_heartbeat, seq, queue, disk, now, workerVars, lease_uuid,
                           claim_uuid, waiters, ghostVars>>
     ELSE /\ queue' = remove_by_seq(queue, sc, cl[claimToken].seq)
          /\ claims' = discard_claim(cl, claimToken)
          /\ disk' = save_queue_state(seq, queue')
          /\ waiters' = notify_all(waiters)
          /\ consumed' = consumed \cup {claimToken}
          /\ resp' = [base EXCEPT !.status = "ok", !.seq = cl[claimToken].seq,
                         !.claimSeq = cl[claimToken].seq,
                         !.claimTxId = cl[claimToken].txId,
                         !.remaining = Cardinality({i \in DOMAIN queue' : queue'[i].scope = sc}),
                         !.repairJob = IF repair THEN job_uuid + 1 ELSE 0]
          /\ IF repair
               THEN /\ job_uuid < MaxJobs
                    /\ job_uuid' = job_uuid + 1
                    /\ cache_context(sc)
                    /\ codex_repair_attempts' =
                         [codex_repair_attempts EXCEPT ![transactionId] = @ + 1]
                    /\ codex_repair_last' = [codex_repair_last EXCEPT ![transactionId] = now]
                    /\ codex_jobs' = [codex_jobs EXCEPT ![job_uuid + 1] = repair_job]
                    /\ repairsOf' = [repairsOf EXCEPT ![repair_job.root] = @ + 1]
                    /\ UNCHANGED <<context_deltas, context_fingerprints, context_last_export_at,
                                   context_export_requests, context_file, context_min_interval,
                                   rec, lastStored, resetDone, codex_responses, codex_acks, codex_errors,
                                   codex_tx_job_map, watch>>
               ELSE UNCHANGED extVars
          /\ UNCHANGED <<leaseVars, fence, last_heartbeat, seq, now, workerVars, lease_uuid, claim_uuid,
                         issued, lastAdmit, lastHand, lastEnq>>

\* ---------------------------------------------------------- /debug/reset
DebugReset ==
  /\ seq' = 0
  /\ queue' = <<>>
  /\ claims' = EmptyMap
  /\ disk' = save_queue_state(0, <<>>)
  /\ waiters' = notify_all(waiters)
  /\ lastHand' = [sc \in Scopes |-> NoHand]
  /\ resp' = [NoResp EXCEPT !.op = "debug_reset", !.status = "ok"]
  /\ UNCHANGED <<extVars, leaseVars, fence, last_heartbeat, now, workerVars, lease_uuid, claim_uuid,
                 issued, lastAdmit, consumed, lastEnq>>

\* ------------------------------------------- process restart, module load

Max(a, b) == IF a >= b THEN a ELSE b

\* max over the seq values of the loaded items, 0 for none
max_seq(items) ==
  IF items = <<>> THEN 0
  ELSE CHOOSE m \in {items[i].seq : i \in DOMAIN items} :
         \A i \in DOMAIN items : items[i].seq <= m

\* the process exits and starts again: the module globals take their initial
\* values and _load_queue_state rebuilds the queue from queue_state.json
Restart ==
  /\ claim_uuid + Len(disk.queue) <= MaxItems
  /\ claim_uuid' = claim_uuid + Len(disk.queue)
  /\ primary_lease_token' = None
  /\ primary_session_id' = NoneStr
  /\ primary_client_id' = NoneStr
  /\ primary_place_id' = None
  /\ fence' = 0
  /\ last_heartbeat' = 0
  /\ claims' = EmptyMap
  /\ queue' = [i \in 1..Len(disk.queue) |->
                 new_item(disk.queue[i].seq, disk.queue[i].tx, claim_uuid + i,
                          disk.queue[i].scope)]
  /\ seq' = Max(Max(0, disk.seq), max_seq(disk.queue))
  /\ waiters' = {}
  /\ issued' = {}
  /\ lastAdmit' = "none"
  /\ lastHand' = [sc \in Scopes |-> NoHand]
  /\ lastEnq' = [sc \in Scopes |-> [lastEnq[sc] EXCEPT !.fence = 0]]
  /\ context_latest' = [k \in Scopes |-> NoCtx]
  /\ context_versions' = [k \in Scopes |-> 0]
  /\ context_deltas' = [k \in Scopes |-> NoDelta]
  /\ context_fingerprints' = [k \in Scopes |-> NoneStr]
  /\ context_last_export_at' = [k \in Scopes |-> NoTime]
  /\ context_export_requests' = {}
  /\ rec' = RecIdle
  /\ codex_jobs' = [j \in JobIds |->
                      IF codex_jobs[j].file THEN [codex_jobs[j] EXCEPT !.index = FALSE]
                      ELSE NoJob]
  /\ codex_tx_job_map' = [t \in BridgeTxIds |-> 0]
  /\ codex_repair_attempts' = [t \in BridgeTxIds |-> 0]
  /\ codex_repair_last' = [t \in BridgeTxIds |-> NoTime]
  /\ watch' = WatchIdle
  /\ resp' = [NoResp EXCEPT !.op = "restart", !.status = "ok"]
  /\ UNCHANGED <<context_file, context_min_interval, lastStored, resetDone, disk, now, workerVars,
                 lease_uuid, consumed, codex_responses, codex_acks, codex_errors, job_uuid, repairsOf>>

\* ---------------------------------------------------------------- clock
Tick(d) ==
  /\ now + d <= MaxTime
  /\ now' = now + d
  /\ UNCHANGED <<extVars, workerVars, leaseVars, fence, last_heartbeat, queueVars, lease_uuid, claim_uuid,
                 waiters, resp, ghostVars>>

\* the response goes back to the caller and the handler thread leaves _cv
Return ==
  /\ resp.op # "none"
  /\ resp.status # "running"
  /\ resp' = NoResp
  /\ UNCHANGED <<extVars, leaseVars, fence, last_heartbeat, queueVars, now, workerVars, lease_uuid, claim_uuid,
                 waiters, ghostVars>>

\* ------------------------------------------------- codex_worker: worker.lock

\* a process id refers to a running process
pid_running(pid) == pid # NoPid /\ worker_pc[pid] # "off"

\* the inode a newly created worker.lock gets: one that no path and no open
\* file refers to
free_inode ==
  CHOOSE i \in Inodes : lock_path # i /\ \A w \in Workers : worker_fd[w] # i

serverVars == <<leaseVars, fence, last_heartbeat, queueVars, now, lease_uuid, claim_uuid,
                waiters, ghostVars, resp, extVars>>

\* os.open(lock_path, O_CREAT | O_EXCL | O_WRONLY): the file is created empty,
\* or FileExistsError sends the worker to where_exists
create_excl(w, where_exists) ==
  IF lock_path = NoInode
    THEN /\ lock_path' = free_inode
         /\ inode_pid' = [inode_pid EXCEPT ![free_inode] = NoPid]
         /\ inode_flock' = [inode_flock EXCEPT ![free_inode] = NoPid]
         /\ worker_fd' = [worker_fd EXCEPT ![w] = free_inode]
         /\ worker_pc' = [worker_pc EXCEPT ![w] = "created"]
    ELSE /\ worker_pc' = [worker_pc EXCEPT ![w] = where_exists]
         /\ UNCHANGED <<lock_path, inode_pid, inode_flock, worker_fd>>

\* open(lock_path, "a+") of _acquire_lock: the file that is there, or a new one
open_append(w) ==
  LET i == IF lock_path = NoInode THEN free_inode ELSE lock_path
  IN /\ lock_path' = i
     /\ inode_pid' = IF lock_path = NoInode THEN [inode_pid EXCEPT ![i] = NoPid] ELSE inode_pid
     /\ inode_flock' = IF lock_path = NoInode THEN [inode_flock EXCEPT ![i] = NoPid]
                       ELSE inode_flock
     /\ worker_fd' = [worker_fd EXCEPT ![w] = i]
     /\ worker_pc' = [worker_pc EXCEPT ![w] = "opened"]

\* a codex_worker process starts and main calls _acquire_lock: import fcntl
\* succeeds or fails as the platform has it, then the first system call on
\* worker.lock
AcquireLock(w) ==
  /\ worker_pc[w] = "off"
  /\ \E f \in {"yes", "no"} :
       /\ has_fcntl \in {"unknown", f}
       /\ has_fcntl' = f
       /\ IF f = "yes" THEN open_append(w) ELSE create_excl(w, "exists")
  /\ UNCHANGED serverVars

\* fcntl.flock(LOCK_EX | LOCK_NB) on the opened file: with the lock the worker
\* writes its pid and main goes on to the job loop, without it main returns 1
Flock(w) ==
  /\ worker_pc[w] = "opened"
  /\ IF inode_flock[worker_fd[w]] = NoPid
       THEN /\ inode_flock' = [inode_flock EXCEPT ![worker_fd[w]] = w]
            /\ inode_pid' = [inode_pid EXCEPT ![worker_fd[w]] = w]
            /\ worker_pc' = [worker_pc EXCEPT ![w] = "running"]
            /\ UNCHANGED worker_fd
       ELSE /\ worker_pc' = [worker_pc EXCEPT ![w] = "off"]
            /\ worker_fd' = [worker_fd EXCEPT ![w] = NoInode]
            /\ UNCHANGED <<inode_flock, inode_pid>>
  /\ UNCHANGED <<serverVars, lock_path, has_fcntl>>

\* _acquire_lock_fallback after FileExistsError: the pid in the file is read
\* (an empty or missing file reads as pid 0); a running pid ends the start
ReadLockPid(w) ==
  LET pid == IF lock_path = NoInode THEN NoPid ELSE inode_pid[lock_path]
  IN /\ worker_pc[w] = "exists"
     /\ worker_pc' = [worker_pc EXCEPT ![w] = IF pid_running(pid) THEN "off" ELSE "stale"]
     /\ UNCHANGED <<serverVars, lock_path, inode_pid, inode_flock, worker_fd, has_fcntl>>

\* the lock file held to be stale is unlinked
UnlinkStale(w) ==
  /\ worker_pc[w] = "stale"
  /\ lock_path' = NoInode
  /\ worker_pc' = [worker_pc EXCEPT ![w] = "retry"]
  /\ UNCHANGED <<serverVars, inode_pid, inode_flock, worker_fd, has_fcntl>>

\* the second os.open with O_EXCL: any failure ends the start
RetryCreate(w) ==
  /\ worker_pc[w] = "retry"
  /\ create_excl(w, "off")
  /\ UNCHANGED <<serverVars, has_fcntl>>

\* lock_file.write(str(os.getpid())) into the file the worker created; main
\* goes on to the job loop
WriteLockPid(w) ==
  /\ worker_pc[w] = "created"
  /\ inode_pid' = [inode_pid EXCEPT ![worker_fd[w]] = w]
  /\ worker_pc' = [worker_pc EXCEPT ![w] = "running"]
  /\ UNCHANGED <<serverVars, lock_path, inode_flock, worker_fd, has_fcntl>>

\* main returns and _cleanup runs: lock_file.close(), which gives up the
\* advisory lock the file carried
CleanupClose(w) ==
  /\ worker_pc[w] = "running"
  /\ inode_flock' = [inode_flock EXCEPT ![worker_fd[w]] = IF @ = w THEN NoPid ELSE @]
  /\ worker_fd' = [worker_fd EXCEPT ![w] = NoInode]
  /\ worker_pc' = [worker_pc EXCEPT ![w] = "closed"]
  /\ UNCHANGED <<serverVars, lock_path, inode_pid, has_fcntl>>

\* then lock_path.unlink() if the path exists, and the process is gone
CleanupUnlink(w) ==
  /\ worker_pc[w] = "closed"
  /\ lock_path' = NoInode
  /\ worker_pc' = [worker_pc EXCEPT ![w] = "off"]
  /\ UNCHANGED <<serverVars, inode_pid, inode_flock, worker_fd, has_fcntl>>

\* ------------------------------------------------------------ the inputs

\* the credentials a caller may present: a lease /register returned, the
\* current fence with a token never issued, the current token with another fence
PresentedLeases ==
  issued \cup {<<BogusToken, fence>>}
         \cup (IF primary_lease_token = None THEN {} ELSE {<<primary_lease_token, fence + 1>>})

PresentedScopes == (Places \X Sessions) \cup {<<BadPlace, "s1">>}

\* a lease-bound call presents a lease with the scope it belongs to, or the
\* current lease with another scope
HomeScope ==
  IF primary_lease_token = None THEN <<10, "s1">>
  ELSE scope_key(primary_place_id, primary_session_id)

\* the lease of the current primary; a leaseToken is a string, never None, so
\* without a primary the caller holds a token that was never issued
CurrentLease ==
  IF primary_lease_token = None THEN <<BogusToken, fence>>
  ELSE <<primary_lease_token, fence>>

Presented ==
  {<<l, HomeScope>> : l \in PresentedLeases}
    \cup {<<CurrentLease, sc>> : sc \in PresentedScopes}

MockScopes == {<<None, NoneStr>>} \cup (Places \X Sessions)

PresentedClaims == 0..claim_uuid

\* a receipt presents the current lease and scope with any claim token and
\* transactionId, or any other lease or scope with a claim that is in the table
ReceiptInputs ==
  {<<<<CurrentLease, HomeScope>>, ct, t>> :
       ct \in PresentedClaims, t \in ReceiptTxIds}
    \cup {<<c, ct, "tx1">> : c \in Presented, ct \in (DOMAIN claims) \cup {0}}

Idle == resp.op = "none"

Next ==
  \/ Idle /\ \E id \in Identities, p \in Places, t \in BOOLEAN : Register(id[1], id[2], p, t)
  \/ Idle /\ \E l \in PresentedLeases : Release(l[1], l[2])
  \/ Idle /\ \E c \in Presented : Sync(c[1][1], c[1][2], c[2][1], c[2][2])
  \/ Idle /\ \E c \in Presented : Heartbeat(c[1][1], c[1][2], c[2][1], c[2][2])
  \/ Idle /\ \E pv \in ProtocolVersions, t \in TxIds :
        Enqueue(pv, t, 1) /\ claim_uuid' <= MaxItems
  \/ Idle /\ \E c \in Presented, since \in SinceVals, t \in TimeoutVals :
        WaitCall(c[1][1], c[1][2], since, c[2][1], c[2][2], t)
  \/ Idle /\ \E w \in waiters : WaitResume(w)
  \/ Idle /\ \E r \in ReceiptInputs :
        Receipt(r[1][1][1], r[1][1][2], r[1][2][1], r[1][2][2], r[2], r[3], FALSE)
  \/ Idle /\ DebugReset
  \/ Idle /\ \E d \in TickSteps : Tick(d)
  \/ Return

Spec == Init /\ [][Next]_vars

\* the operations on the queue with the credentials of the current primary,
\* together with /enqueue_mock and the restart of the process
NextOps ==
  \/ Idle /\ \E id \in Identities, p \in Places, t \in BOOLEAN : Register(id[1], id[2], p, t)
  \/ Idle /\ Release(CurrentLease[1], CurrentLease[2])
  \/ Idle /\ \E t \in TxIds : Enqueue(PROTOCOL_VERSION, t, 1) /\ claim_uuid' <= MaxItems
  \/ Idle /\ \E sc \in MockScopes : EnqueueMock(sc[1], sc[2]) /\ claim_uuid' <= MaxItems
  \/ Idle /\ \E since \in SinceVals, t \in TimeoutVals :
        WaitCall(CurrentLease[1], CurrentLease[2], since, HomeScope[1], HomeScope[2], t)
  \/ Idle /\ \E w \in waiters : WaitResume(w)
  \/ Idle /\ \E ct \in PresentedClaims, t \in ReceiptTxIds :
        Receipt(CurrentLease[1], CurrentLease[2], HomeScope[1], HomeScope[2], ct, t, FALSE)
  \/ Idle /\ DebugReset
  \/ Idle /\ Restart
  \/ Idle /\ \E d \in TickSteps : Tick(d)
  \/ Return

OpsSpec == Init /\ [][NextOps]_vars

\* the three ways into the queue, /enqueue (which the MCP tool enqueue_actions
\* posts to as well), /enqueue_mock and the response of a bridge job, with the
\* primary waiting and receipting
NextEntry ==
  \/ Idle /\ Register("c1", "s1", 10, FALSE)
  \/ Idle /\ \E t \in TxIds, n \in ActionCounts :
        Enqueue(PROTOCOL_VERSION, t, n) /\ claim_uuid' <= MaxEntryItems
  \/ Idle /\ \E sc \in MockScopes : EnqueueMock(sc[1], sc[2]) /\ claim_uuid' <= MaxEntryItems
  \/ Idle /\ \E sc \in Scopes, t \in EntryTxIds, n \in {0} \cup ActionCounts :
        ProcessCodexResponse(1, [NoJob EXCEPT !.scope = sc, !.file = TRUE],
                             [NoData EXCEPT !.kind = "dict", !.transactionId = t,
                                            !.actions = n], FALSE)
        /\ UNCHANGED watch
        /\ claim_uuid' <= MaxEntryItems
  \/ Idle /\ \E since \in SinceVals, t \in TimeoutVals :
        WaitCall(CurrentLease[1], CurrentLease[2], since, HomeScope[1], HomeScope[2], t)
  \/ Idle /\ \E w \in waiters : WaitResume(w)
  \/ Idle /\ \E ct \in PresentedClaims :
        Receipt(CurrentLease[1], CurrentLease[2], HomeScope[1], HomeScope[2], ct, "tx1", FALSE)
  \/ Return

EntrySpec == Init /\ [][NextEntry]_vars

\* the script entries an export may carry: none, game/S with its source, or
\* game/S without it and with a sha1 or a byte count that may or may not be
\* the stored one
ScriptInputs ==
  {NoScript,
   [NoScript EXCEPT !.path = "game/S", !.sha1 = "H1", !.bytes = 5, !.source = "srcA"],
   [NoScript EXCEPT !.path = "game/S", !.bytes = 5, !.source = "srcB",
                    !.sourceTruncated = TRUE]}
    \cup {[NoScript EXCEPT !.path = "game/S", !.sha1 = h] : h \in {"H1", "H2"}}
    \cup {[NoScript EXCEPT !.path = "game/S", !.bytes = b] : b \in Bytes}

\* the scope a context call names: none (the primary scope is taken) or a
\* scope of its own
ContextScopes == {<<None, NoneStr>>, <<10, "s2">>}

\* the context store: exports of the plugin, /context/latest and
\* /context/reset, the clock and the restart of the process
NextCtx ==
  \/ Idle /\ Register("c1", "s1", 10, FALSE)
  \/ Idle /\ \E sc \in ContextScopes, fp \in Fingerprints, m \in ExportModes,
                scr \in ScriptInputs :
        /\ ContextExport(sc[1], sc[2], fp, m, scr)
        /\ \A k \in Scopes : context_versions'[k] <= MaxCtxVersion
  \/ Idle /\ \E sc \in ContextScopes : ContextLatest(sc[1], sc[2])
  \/ Idle /\ \E sc \in ContextScopes : ContextResetBegin(sc[1], sc[2])
  \/ ContextResetFinish
  \/ Idle /\ Restart
  \/ Idle /\ \E d \in TickSteps : Tick(d)
  \/ Return

CtxSpec == InitCtx /\ [][NextCtx]_vars

\* the exports the reconciler runs against: full exports of game/S
ReconcileExports ==
  {<<fp, [NoScript EXCEPT !.path = "game/S", !.sha1 = "H1", !.bytes = 5, !.source = "srcA"]>> :
     fp \in {"F1", "F2"}}

\* /context/reset and /context/latest against the reconciler thread, which
\* runs at any moment, a handler holding _cv or not
NextReconcile ==
  \/ Idle /\ Register("c1", "s1", 10, FALSE)
  \/ Idle /\ \E e \in ReconcileExports :
        /\ ContextExport(None, NoneStr, e[1], "full", e[2])
        /\ \A k \in Scopes : context_versions'[k] <= MaxCtxVersion + 1
  \/ Idle /\ ContextLatest(None, NoneStr)
  \/ Idle /\ ContextResetBegin(None, NoneStr)
  \/ ContextResetFinish
  \/ ReconcileStart
  \/ ReconcileKey
  \/ ReconcileLoad
  \/ ReconcileApply
  \/ Return

ReconcileSpec == Init /\ [][NextReconcile]_vars

\* the blocking /wait with its callers: the primary registers and is taken
\* over, transactions are enqueued and receipted, waits block and are resumed
\* by a notify_all or by their timeout, and the clock advances
LiveResume == Idle /\ \E w \in waiters : WaitResume(w)

LiveTick == Idle /\ \E d \in TickSteps : Tick(d)

NextWait ==
  \/ Idle /\ \E id \in Identities : Register(id[1], id[2], 10, TRUE)
  \/ Idle /\ \E t \in TxIds : Enqueue(PROTOCOL_VERSION, t, 1) /\ claim_uuid' <= MaxItems
  \/ Idle /\ now + DEFAULT_WAIT_TIMEOUT_SEC <= MaxTime
          /\ \E since \in SinceVals, t \in TimeoutVals :
                WaitCall(CurrentLease[1], CurrentLease[2], since, HomeScope[1], HomeScope[2], t)
  \/ LiveResume
  \/ Idle /\ \E ct \in PresentedClaims :
        Receipt(CurrentLease[1], CurrentLease[2], HomeScope[1], HomeScope[2], ct, "tx1", FALSE)
  \/ LiveTick
  \/ Return

\* a handler that holds _cv runs to its return; a thread that _cv.wait has
\* woken, by notify_all or by its timeout, gets _cv again; the clock advances
\* whatever the handlers do
WaitSpec ==
  /\ Init
  /\ [][NextWait]_vars
  /\ WF_vars(Return)
  /\ SF_vars(LiveResume)
  /\ SF_vars(LiveTick)

\* the responses the worker writes: one editScript on game/S, with or
\* without an expectedHash, with a risk score over the limit, with no action
\* or with too many
Plain == [NoData EXCEPT !.kind = "dict", !.actions = 1, !.path = "game/S"]

ExpectedHashes == {<<"sha1", "H1">>, <<"sha1", "H2">>}

BridgeData ==
  {Plain, [Plain EXCEPT !.risk = TRUE], [Plain EXCEPT !.actions = 0],
   [Plain EXCEPT !.actions = CODEX_MAX_ACTIONS + 1]}
    \cup {[Plain EXCEPT !.expectedHash = h] : h \in ExpectedHashes}

\* the export the bridge validates against: game/S with the sha1 H1
BridgeScript == [NoScript EXCEPT !.path = "game/S", !.sha1 = "H1", !.bytes = 5]

\* the job bridge: jobs are posted, the worker answers them in responses/ or
\* through /codex/response, the watcher validates the responses against the
\* cached context and enqueues them, while the primary registers, is taken over and releases its lease
NextBridge ==
  \/ Idle /\ \E id \in {<<"c1", "s1">>, <<"c2", "s2">>} : Register(id[1], id[2], 10, TRUE)
  \/ Idle /\ Release(CurrentLease[1], CurrentLease[2])
  \/ Idle /\ ContextExport(None, NoneStr, NoneStr, "full", BridgeScript)
          /\ \A k \in Scopes : context_versions'[k] <= 1
  \/ Idle /\ CodexJob(None, NoneStr) /\ job_uuid' <= MaxBridgeJobs
  \/ Idle /\ \E j \in JobIds, d \in BridgeData : WriteResponse(j, d)
  \/ Idle /\ WatchStart
  \/ Idle /\ \E j \in JobIds : WatchStep(j) /\ claim_uuid' <= MaxBridgeItems
  \/ Idle /\ \E j \in 1..job_uuid : CodexResponse(j, Plain) /\ claim_uuid' <= MaxBridgeItems
  \/ Idle /\ \E d \in TickSteps : Tick(d)
  \/ Return

BridgeSpec == Init /\ [][NextBridge]_vars

\* the auto-repair loop: transactions come from /enqueue and from the job
\* bridge, the primary takes them with /wait and receipts them with or
\* without errors
NextRepair ==
  \/ Idle /\ Register("c1", "s1", 10, FALSE)
  \/ Idle /\ \E t \in TxIds : Enqueue(PROTOCOL_VERSION, t, 1) /\ claim_uuid' <= MaxBridgeItems
  \/ Idle /\ CodexJob(None, NoneStr)
  \/ Idle /\ \E j \in JobIds : WriteResponse(j, Plain)
  \/ Idle /\ WatchStart
  \/ Idle /\ \E j \in JobIds : WatchStep(j) /\ claim_uuid' <= MaxBridgeItems
  \/ Idle /\ \E since \in SinceVals, t \in TimeoutVals :
        WaitCall(CurrentLease[1], CurrentLease[2], since, HomeScope[1], HomeScope[2], t)
  \/ Idle /\ \E ct \in DOMAIN claims, e \in BOOLEAN :
        Receipt(CurrentLease[1], CurrentLease[2], HomeScope[1], HomeScope[2], ct,
                claims[ct].txId, e)
  \/ Return

RepairSpec == Init /\ [][NextRepair]_vars

\* the responses the watcher finds: a JSON object, text that is no JSON, and
\* a JSON array
WatchData == {Plain, [NoData EXCEPT !.kind = "text"], [NoData EXCEPT !.kind = "list"]}

WatchPass == WatchStart

WatchLoop == Idle /\ \E j \in JobIds : WatchStep(j) /\ claim_uuid' <= MaxBridgeItems

\* the watcher thread against the worker: the primary stays registered and
\* posts jobs, the worker answers them
NextWatch ==
  \/ Idle /\ Register("c1", "s1", 10, FALSE)
  \/ Idle /\ CodexJob(None, NoneStr)
  \/ \E j \in JobIds, d \in WatchData : WriteResponse(j, d)
  \/ WatchPass
  \/ WatchLoop
  \/ Return

\* the watcher loop sleeps a second and runs again for ever, the iterations
\* of its for loop get _cv whenever it is free again and again, and a handler
\* that holds _cv runs to its return
WatchSpec ==
  /\ Init
  /\ [][NextWatch]_vars
  /\ WF_vars(Return)
  /\ WF_vars(WatchPass)
  /\ SF_vars(WatchLoop)

\* the sweep of the watcher thread against the worker process, which writes
\* into responses/ without any lock shared with the server
NextSweep ==
  \/ Idle /\ Register("c1", "s1", 10, FALSE)
  \/ Idle /\ CodexJob(None, NoneStr) /\ job_uuid' <= MaxBridgeJobs
  \/ Idle /\ \E j \in JobIds : WriteResponse(j, Plain)
  \/ Idle /\ \E j \in JobIds : SweepCheck(j)
  \/ Idle /\ SweepExpire
  \/ Idle /\ WatchStart
  \/ Idle /\ \E j \in JobIds : WatchStep(j)
  \/ \E d \in TickSteps : Tick(d)
  \/ Return

SweepSpec == Init /\ [][NextSweep]_vars

\* the exports that change the fingerprint of game/S
HashScripts == {BridgeScript, [BridgeScript EXCEPT !.sha1 = "H2"]}

\* the watcher handling responses that name an expectedHash while the plugin
\* exports its context
NextHash ==
  \/ Idle /\ Register("c1", "s1", 10, FALSE)
  \/ Idle /\ \E s \in HashScripts :
        /\ ContextExport(None, NoneStr, NoneStr, "full", s)
        /\ \A k \in Scopes : context_versions'[k] <= MaxCtxVersion
  \/ Idle /\ CodexJob(None, NoneStr) /\ job_uuid' <= MaxBridgeJobs
  \/ Idle /\ \E j \in JobIds, h \in ExpectedHashes :
        WriteResponse(j, [Plain EXCEPT !.expectedHash = h])
  \/ Idle /\ WatchStart
  \/ Idle /\ \E j \in JobIds : WatchValidate(j)
  \/ Idle /\ WatchEnqueue /\ claim_uuid' <= MaxBridgeItems
  \/ Idle /\ \E j \in JobIds : WatchStep(j) /\ claim_uuid' <= MaxBridgeItems
  \/ Return

HashSpec == Init /\ [][NextHash]_vars

\* registers that name one place or another, with the heartbeats of the
\* clients that registered
NextPlace ==
  \/ Idle /\ \E c \in Clients, sid \in Sessions, p \in Places \cup {BadPlace}, t \in BOOLEAN :
        Register(c, sid, p, t)
  \/ Idle /\ \E sid \in Sessions, p \in Places \cup {BadPlace} :
        Heartbeat(CurrentLease[1], CurrentLease[2], p, sid)
  \/ Idle /\ \E d \in TickSteps : Tick(d)
  \/ Return

PlaceSpec == Init /\ [][NextPlace]_vars

\* codex_worker processes started and ended on one queue root, in any order
NextWorker ==
  \/ \E w \in Workers : AcquireLock(w)
  \/ \E w \in Workers : Flock(w)
  \/ \E w \in Workers : ReadLockPid(w)
  \/ \E w \in Workers : UnlinkStale(w)
  \/ \E w \in Workers : RetryCreate(w)
  \/ \E w \in Workers : WriteLockPid(w)
  \/ \E w \in Workers : CleanupClose(w)
  \/ \E w \in Workers : CleanupUnlink(w)

WorkerSpec == Init /\ [][NextWorker]_vars


\* ======================================================================
\* Properties
\* ======================================================================

\* a step in which a handler ran and produced the response resp'
Called(ops) == resp.op = "none" /\ resp'.op \in ops

\* C1: sync, heartbeat, wait and receipt succeed only when the presented
\* leaseToken and fence are the primary's and the presented scope is the
\* primary scope; a call (release included) that presents any other
\* leaseToken or fence, such as the lease a takeover replaced, fails
\* FenceMismatch.
C1_FenceDiscipline ==
  [][Called({"sync", "heartbeat", "wait", "receipt", "release"}) =>
       LET match == resp'.leaseToken = primary_lease_token /\ resp'.fence = fence
           scopeOk == /\ resp'.placeId = primary_place_id
                      /\ resp'.studioSessionId = primary_session_id
       IN /\ (resp'.op # "release" /\ resp'.status = "ok")
               => (match /\ scopeOk /\ primary_lease_token # None)
          /\ (resp'.op = "release" /\ resp'.status = "ok") => match
          /\ (~resp'.resumed /\ ~match) => resp'.status = "FenceMismatch"]_vars

\* C2: the fence never decreases while the process lives, and a register that
\* changes the primary returns a fence greater than every fence an earlier
\* register returned.
C2_FenceMonotonic ==
  [][/\ resp'.op # "restart" => fence' >= fence
     /\ (Called({"register"}) /\ resp'.status = "ok"
           /\ primary_lease_token' # primary_lease_token)
          => /\ resp'.fence = fence'
             /\ \A p \in issued : resp'.fence > p[2]]_vars

\* a takeover has returned a fence after an earlier admit
C2_Witness ==
  /\ resp.op = "register"
  /\ resp.status = "ok"
  /\ resp.kind = "takeover"
  /\ Cardinality(issued) = 2

\* C3: no transaction is handed out to a caller whose leaseToken and fence are
\* not the primary's at the moment of the hand-off, also when the call went to
\* sleep under a lease that was released or taken over since.
C3_NoStaleHandOff ==
  (resp.op = "wait" /\ resp.status = "ok")
    => (resp.leaseToken = primary_lease_token /\ resp.fence = fence)

\* C4 as amended: a successful wait returns the item with the smallest seq
\* among the queued items of the caller's scope with seq >= since that are
\* unclaimed, so never one below since or one already claimed; and as long as
\* seq is not reset, a hand-out whose since is not below the since of the
\* scope's previous hand-out has a greater seq than that hand-out.
C4_SmallestEligible ==
  [][(Called({"wait"}) /\ resp'.status = "ok") =>
       LET sc == <<resp'.placeId, resp'.studioSessionId>>
           elig == {i \in DOMAIN queue : /\ queue[i].scope = sc
                                         /\ queue[i].seq >= resp'.since
                                         /\ ~queue[i].claimed}
       IN /\ \E i \in elig : /\ queue[i].seq = resp'.seq
                             /\ \A j \in elig \ {i} : queue[j].seq > queue[i].seq
                             /\ queue'[i].claimed
          /\ resp'.seq >= resp'.since
          /\ (lastHand[sc].seq # 0 /\ resp'.since >= lastHand[sc].since)
               => resp'.seq > lastHand[sc].seq]_vars

\* the second of two queued items is handed out after the first
C4_Witness ==
  /\ resp.op = "wait"
  /\ resp.status = "ok"
  /\ resp.seq = 2
  /\ Len(queue) = 2
  /\ queue[1].seq = 1
  /\ queue[1].claimed

\* C4 as claimed: the smallest eligible item is returned and the items of a
\* scope are handed out in strictly increasing seq order.
C4_StrictHandOutOrder ==
  [][(Called({"wait"}) /\ resp'.status = "ok") =>
       LET sc == <<resp'.placeId, resp'.studioSessionId>>
           elig == {i \in DOMAIN queue : /\ queue[i].scope = sc
                                         /\ queue[i].seq >= resp'.since
                                         /\ ~queue[i].claimed}
       IN /\ \E i \in elig : /\ queue[i].seq = resp'.seq
                             /\ \A j \in elig \ {i} : queue[j].seq > queue[i].seq
          /\ resp'.seq >= resp'.since
          /\ lastHand[sc].seq # 0 => resp'.seq > lastHand[sc].seq]_vars

\* C5: once CLAIM_TTL has elapsed without a receipt the item is unclaimed
\* again and is returned to the primary's next wait with the same since: a
\* wait of the primary that returns no item leaves no item of its scope with
\* seq >= since other than those held by a claim that has not expired.
C5_ExpiredClaimReoffered ==
  (resp.op = "wait" /\ ~resp.resumed /\ resp.status \in {"empty", "blocked"})
    => \A i \in DOMAIN queue :
         (queue[i].scope = <<resp.placeId, resp.studioSessionId>> /\ queue[i].seq >= resp.since)
           => /\ queue[i].claimed
              /\ queue[i].claimToken \in DOMAIN claims
              /\ claims[queue[i].claimToken].expiresAt > now

\* the items that are claimed under a claim that has not expired
LiveClaimed ==
  {i \in DOMAIN queue : /\ queue[i].claimed
                        /\ queue[i].claimToken \in DOMAIN claims
                        /\ claims[queue[i].claimToken].expiresAt > now}

\* C6 as claimed: at most one outstanding item is claimed under a claim that
\* has not expired.
C6_AtMostOneClaimed ==
  Cardinality(LiveClaimed) <= 1

\* C6 as amended: every claim in the claims table belongs to exactly one
\* outstanding item, which is claimed and whose seq, scope and transactionId
\* the claim records: an item has at most one outstanding claim, while several
\* items may be claimed at once.
C6_OneClaimPerItem ==
  \A t \in DOMAIN claims :
    /\ Cardinality({i \in DOMAIN queue : queue[i].claimToken = t}) = 1
    /\ \A i \in DOMAIN queue :
         queue[i].claimToken = t
           => /\ queue[i].claimed
              /\ claims[t].seq = queue[i].seq
              /\ claims[t].scope = queue[i].scope
              /\ claims[t].txId = queue[i].tx.transactionId

\* two items are claimed and one of the claims is then receipted
C6_Witness ==
  /\ resp.op = "receipt"
  /\ resp.status = "ok"
  /\ Cardinality(DOMAIN claims) = 1
  /\ Len(queue) = 1
  /\ queue[1].claimed

\* C7: a receipt succeeds only with a claim whose scope is the caller's scope
\* and whose transactionId is the transactionId the receipt names.
C7_ReceiptNamesClaimedTx ==
  (resp.op = "receipt" /\ resp.status = "ok")
    => resp.claimTxId = resp.transactionId

\* C8: a successful receipt removes exactly the one queue item with the seq
\* its claim records and deletes the claim; a receipt that fails leaves the
\* queue alone; a receipt that presents a claimToken an earlier receipt
\* consumed never succeeds, and fails ClaimInvalidOrExpired when its lease and
\* scope are the primary's.
C8_ClaimOneShot ==
  [][Called({"receipt"}) =>
       LET t == resp'.claimToken
       IN /\ resp'.status = "ok" =>
               /\ t \in DOMAIN claims
               /\ t \notin consumed
               /\ t \notin DOMAIN claims'
               /\ \E i \in DOMAIN queue :
                     /\ queue[i].seq = claims[t].seq
                     /\ queue[i].claimToken = t
                     /\ queue' = [j \in 1..(Len(queue) - 1) |->
                                    IF j < i THEN queue[j] ELSE queue[j + 1]]
          /\ resp'.status # "ok" => queue' = queue
          /\ t \in consumed =>
               /\ resp'.status # "ok"
               /\ (/\ resp'.leaseToken = primary_lease_token
                   /\ resp'.fence = fence
                   /\ resp'.placeId = primary_place_id
                   /\ resp'.studioSessionId = primary_session_id)
                    => resp'.status = "ClaimInvalidOrExpired"]_vars

\* the claimToken of a receipted item is presented again under the same lease
C8_Witness ==
  /\ resp.op = "receipt"
  /\ resp.status = "ClaimInvalidOrExpired"
  /\ resp.claimToken \in consumed
  /\ resp.leaseToken = primary_lease_token
  /\ Len(queue) = 1

C10_RegisterAdmission ==
  [][(/\ Called({"register"})
      /\ ~resp'.takeover
      /\ \/ primary_lease_token = None
         \/ resp'.studioSessionId # primary_session_id
         \/ resp'.clientId # primary_client_id) =>
       LET free == \/ primary_lease_token = None
                   \/ (now - last_heartbeat) > HEARTBEAT_TTL_SEC
       IN /\ (resp'.status = "ok") <=> free
          /\ resp'.status = "ok" =>
               /\ fence' = fence + 1
               /\ resp'.fence = fence'
               /\ resp'.leaseToken # None
               /\ primary_lease_token' = resp'.leaseToken
               /\ \A p \in issued : p[1] # resp'.leaseToken
               /\ queue' = <<>>
               /\ DOMAIN claims' = {}
          /\ resp'.status # "ok" =>
               /\ resp'.status = "PrimaryAlreadyRegistered"
               /\ UNCHANGED <<leaseVars, fence, last_heartbeat, queueVars>>]_vars

\* c2 registers without takeover after c1's lease has expired
C10_Witness ==
  /\ resp.op = "register"
  /\ resp.status = "ok"
  /\ resp.kind = "readmit"
  /\ ~resp.takeover
  /\ resp.prevClientId # NoneStr
  /\ resp.prevClientId # resp.clientId

\* C11: a register by the identity of the primary while its lease is alive
\* returns the leaseToken and the fence the primary holds and changes nothing
\* but the heartbeat time, which becomes the time of the call.
C11_ReconnectIdempotent ==
  [][(/\ Called({"register"})
      /\ primary_lease_token # None
      /\ (now - last_heartbeat) <= HEARTBEAT_TTL_SEC
      /\ resp'.clientId = primary_client_id
      /\ resp'.studioSessionId = primary_session_id) =>
       /\ resp'.status = "ok"
       /\ resp'.leaseToken = primary_lease_token
       /\ resp'.fence = fence
       /\ last_heartbeat' = now
       /\ UNCHANGED <<leaseVars, fence, seq, queue, claims>>]_vars

\* the primary registers again 15 s after its admission, with an item queued
C11_Witness ==
  /\ resp.op = "register"
  /\ resp.status = "ok"
  /\ resp.kind = "reconnect"
  /\ now = HEARTBEAT_TTL_SEC
  /\ last_heartbeat = now
  /\ Len(queue) = 1

\* C12: a release that presents the primary's leaseToken and fence leaves no
\* primary and keeps the fence; while there is no primary an enqueue fails
\* NoPrimary, and a heartbeat, wait or receipt made with a lease that is no
\* longer the primary's, the released one included, fails FenceMismatch; the
\* register that follows is admitted with the fence one greater; a release
\* that presents another leaseToken or fence fails FenceMismatch and changes
\* nothing.
C12_Release ==
  [][/\ Called({"release"}) =>
          IF resp'.leaseToken = primary_lease_token /\ resp'.fence = fence
            THEN /\ resp'.status = "ok"
                 /\ primary_lease_token' = None
                 /\ primary_session_id' = NoneStr
                 /\ primary_client_id' = NoneStr
                 /\ primary_place_id' = None
                 /\ fence' = fence
            ELSE /\ resp'.status = "FenceMismatch"
                 /\ UNCHANGED <<leaseVars, fence, last_heartbeat, queueVars, waiters>>
     /\ (Called({"enqueue"}) /\ primary_lease_token = None)
          => /\ resp'.status \in {"NoPrimary", "ProtocolVersionMismatch"}
             /\ UNCHANGED <<leaseVars, fence, last_heartbeat, queueVars>>
     /\ (/\ Called({"heartbeat", "wait", "receipt"})
         /\ ~resp'.resumed
         /\ <<resp'.leaseToken, resp'.fence>> \in issued
         /\ resp'.leaseToken # primary_lease_token)
          => resp'.status = "FenceMismatch"
     /\ (Called({"register"}) /\ primary_lease_token = None)
          => /\ resp'.status = "ok"
             /\ fence' = fence + 1
             /\ resp'.fence = fence']_vars

\* the register that follows the release of the first lease
C12_Witness ==
  /\ resp.op = "register"
  /\ resp.status = "ok"
  /\ resp.kind = "admit"
  /\ resp.fence = 2
  /\ Cardinality(issued) = 2

\* C13: wait hands out only items that were enqueued under the fence of the
\* moment of the hand-out: every step that changes the fence (the register
\* after a release or an expiry, and the takeover) leaves the queue and the
\* claims table empty.
C13_NoItemAcrossFence ==
  [][/\ (Called({"wait"}) /\ resp'.status = "ok")
          => \E i \in DOMAIN queue : /\ queue[i].claimToken = resp'.claimToken
                                     /\ queue[i].seq = resp'.seq
                                     /\ queue[i].enqFence = fence
     /\ (fence' # fence /\ resp'.op # "restart")
          => /\ queue' = <<>>
             /\ DOMAIN claims' = {}]_vars

\* an item is handed out under the second fence
C13_Witness ==
  /\ resp.op = "wait"
  /\ resp.status = "ok"
  /\ fence = 2
  /\ resp.outFence = 2
  /\ \E i \in DOMAIN queue : queue[i].claimToken = resp.claimToken /\ queue[i].enqFence = 2

\* C14: a restart reloads every item that was enqueued and not receipted,
\* unclaimed, and the items are still in the queue, unclaimed, for wait to
\* offer once the first primary after the restart has registered.
C14_ReloadedItemsOffered ==
  [][/\ resp'.op = "restart"
          => /\ Len(queue') = Len(queue)
             /\ \A i \in DOMAIN queue : /\ queue'[i].seq = queue[i].seq
                                        /\ queue'[i].tx = queue[i].tx
                                        /\ queue'[i].scope = queue[i].scope
                                        /\ ~queue'[i].claimed
     /\ (Called({"register"}) /\ resp'.status = "ok" /\ fence = 0)
          => \A i \in DOMAIN queue :
               (queue[i].scope = <<resp'.placeId, resp'.studioSessionId>>)
                 => \E j \in DOMAIN queue' : /\ queue'[j].seq = queue[i].seq
                                             /\ queue'[j].tx = queue[i].tx
                                             /\ ~queue'[j].claimed]_vars

\* the calls of C15 that returned an error
Failed ==
  /\ Called({"register", "release", "heartbeat", "sync", "enqueue", "wait", "receipt"})
  /\ resp'.status \notin {"ok", "empty", "blocked"}

\* C15 as claimed: a call that returns an error leaves the lease, the fence,
\* seq, the queue and the claims table as they were.
C15_ErrorsChangeNothing ==
  [][Failed => UNCHANGED <<leaseVars, fence, last_heartbeat, seq, queue, claims>>]_vars

\* C15 as amended: a call that returns an error leaves the lease, the fence,
\* seq and the queue as they were, and the claims table too, except that a
\* receipt that fails ClaimInvalidOrExpired removes the claims that have
\* expired and no other.
C15_ErrorsPurgeExpiredOnly ==
  [][Failed =>
       /\ UNCHANGED <<leaseVars, fence, last_heartbeat, seq, queue>>
       /\ IF resp'.op = "receipt" /\ resp'.status = "ClaimInvalidOrExpired"
            THEN /\ DOMAIN claims' = {k \in DOMAIN claims : claims[k].expiresAt > now}
                 /\ \A k \in DOMAIN claims' : claims'[k] = claims[k]
            ELSE claims' = claims]_vars

\* a receipt presents the token of a claim that has expired, while the claim
\* of another item is still good
C15_Witness ==
  /\ resp.op = "receipt"
  /\ resp.status = "ClaimInvalidOrExpired"
  /\ Cardinality(DOMAIN claims) = 1
  /\ \E i \in DOMAIN queue : /\ queue[i].claimToken = resp.claimToken
                             /\ queue[i].claimed
                             /\ resp.claimToken \notin DOMAIN claims

\* C16: no item of the queue carries a transaction with more than
\* CODEX_MAX_ACTIONS actions, whichever way it came in.
C16_NoOversizedTx ==
  \A i \in DOMAIN queue : queue[i].tx.actions <= CODEX_MAX_ACTIONS

C18_UniqueTransactionId ==
  \A i, j \in DOMAIN queue :
    i # j => queue[i].tx.transactionId # queue[j].tx.transactionId

\* C19: every wait call terminates. A wait returns an item exactly when an
\* unclaimed item of its scope with seq >= since is in the queue, and the
\* empty result only once its deadline has elapsed; a blocked wait for which
\* such an item has been enqueued has been woken; and every blocked wait
\* eventually returns.
C19_WaitTerminates ==
  /\ [][(Called({"wait"}) /\ resp'.status \in {"ok", "empty", "blocked"})
         => LET sc == scope_key(resp'.placeId, resp'.studioSessionId)
            IN /\ resp'.status = "ok" <=> eligible(queue, sc, resp'.since) # {}
               /\ resp'.status = "empty" =>
                    \E w \in waiters \ waiters' : resp'.resumed /\ now >= w.deadline
               /\ resp'.status = "blocked" =>
                    \E w \in waiters' \ waiters : now < w.deadline]_vars
  /\ [](\A w \in waiters :
          eligible(queue, scope_key(w.placeId, w.studioSessionId), w.since) # {}
            => w.notified)
  /\ \A n \in 1..MaxWaiters :
       (\E w \in waiters : w.id = n) ~> ~(\E w \in waiters : w.id = n)

\* a blocked wait was woken before its deadline by an enqueue and returned
\* the item
C19_Witness ==
  /\ resp.op = "wait"
  /\ resp.resumed
  /\ resp.status = "ok"
  /\ now < DEFAULT_WAIT_TIMEOUT_SEC

\* the states of the first exchange of a fresh server
Fresh ==
  /\ primary_lease_token = None /\ fence = 0 /\ lease_uuid = 0
  /\ seq = 0 /\ claim_uuid = 0 /\ queue = <<>> /\ claims = EmptyMap

PrimaryIsC1 ==
  /\ primary_lease_token # None /\ fence = 1
  /\ primary_client_id = "c1" /\ primary_session_id = "s1" /\ primary_place_id = 10

Registered == PrimaryIsC1 /\ seq = 0 /\ queue = <<>> /\ claims = EmptyMap

Enqueued ==
  /\ PrimaryIsC1 /\ seq = 1 /\ Len(queue) = 1 /\ claims = EmptyMap
  /\ queue[1].seq = 1 /\ queue[1].tx.transactionId = "tx1" /\ ~queue[1].claimed

Handed ==
  /\ PrimaryIsC1 /\ seq = 1 /\ Len(queue) = 1
  /\ queue[1].seq = 1 /\ queue[1].claimed
  /\ DOMAIN claims = {queue[1].claimToken}
  /\ now < claims[queue[1].claimToken].expiresAt

ByPrimary ==
  /\ resp'.leaseToken = primary_lease_token /\ resp'.fence = fence
  /\ resp'.placeId = 10 /\ resp'.studioSessionId = "s1"

\* C20: on a fresh server Register(c1, s1, placeId 10) returns fence 1; then
\* Enqueue of tx1 returns seq 1; then Wait with since 1 returns seq 1 with a
\* claimToken; then Receipt with that claimToken, before the claim expires,
\* returns removedSeq 1 and remaining 0 and leaves the queue and the claims
\* table empty.
C20_FirstExchange ==
  [][/\ (Fresh /\ Called({"register"}) /\ resp'.clientId = "c1"
             /\ resp'.studioSessionId = "s1" /\ resp'.placeId = 10)
          => (resp'.status = "ok" /\ resp'.fence = 1 /\ Registered')
     /\ (Registered /\ Called({"enqueue"}) /\ resp'.status # "ProtocolVersionMismatch")
          => (resp'.status = "ok" /\ resp'.transactionId = "tx1" /\ resp'.seq = 1
              /\ Enqueued')
     /\ (Enqueued /\ Called({"wait"}) /\ ByPrimary /\ resp'.since = 1)
          => (resp'.status = "ok" /\ resp'.seq = 1 /\ resp'.claimToken # None
              /\ resp'.claimToken = queue[1].claimToken /\ Handed')
     /\ (Handed /\ Called({"receipt"}) /\ ByPrimary
             /\ resp'.claimToken = queue[1].claimToken)
          => (resp'.status = "ok" /\ resp'.claimSeq = 1 /\ resp'.remaining = 0
              /\ queue' = <<>> /\ claims' = EmptyMap)]_vars

\* the receipt of the first exchange has returned
C20_Witness ==
  /\ resp.op = "receipt" /\ resp.status = "ok"
  /\ resp.claimSeq = 1 /\ resp.remaining = 0
  /\ queue = <<>> /\ claims = EmptyMap
  /\ PrimaryIsC1 /\ lease_uuid = 1 /\ seq = 1 /\ claim_uuid = 1

\* the key an export, a reset or a lookup has answered for
RespKey == <<resp'.placeId, resp'.studioSessionId>>

\* C21: per key, a stored export gets a contextVersion above that of the
\* stored export before it, whatever context operations lie between, and an
\* export whose fingerprint is the stored fingerprint leaves the version alone.
C21_VersionsIncrease ==
  [][(Called({"context_export"}) /\ RespKey \in Scopes)
       => /\ resp'.status = "stored" => resp'.contextVersion > lastStored[RespKey]
          /\ (resp'.fingerprint # NoneStr
                /\ resp'.fingerprint = context_fingerprints[RespKey])
               => context_versions' = context_versions]_vars

\* the store holds, as its latest snapshot of key k, an export of fingerprint
\* fp that was stored at this instant
JustStored(k, fp) ==
  /\ fp # NoneStr
  /\ context_latest[k] # NoCtx
  /\ context_latest[k].fingerprint = fp
  /\ context_latest[k].contextVersion = context_versions[k]
  /\ context_fingerprints[k] = fp
  /\ context_file[k] = context_latest[k]
  /\ context_last_export_at[k] = now
  /\ lastStored[k] = context_versions[k]

\* C22: an export that carries the non-empty fingerprint of the export stored
\* just before it for the same key, whatever its mode, returns "unchanged" and
\* leaves the version, the snapshot and the delta of the key as they were.
C22_SameFingerprintUnchanged ==
  [][(Called({"context_export"}) /\ RespKey \in Scopes
        /\ resp'.status \notin {"NoPrimary", "ScopeMismatch"}
        /\ JustStored(RespKey, resp'.fingerprint))
       => /\ resp'.status = "unchanged"
          /\ UNCHANGED <<context_versions, context_latest, context_deltas, context_file>>]_vars

\* C23: a diff-mode export stored as version V+1 whose script arrives without
\* source is stored with the source of the script of the same path in the
\* snapshot of version V, and with sourceTruncated false, when that script has
\* a source and the same sha1 or, the export giving no sha1, the same byte
\* size.
C23_DiffCarriesSource ==
  [][(Called({"context_export"}) /\ resp'.status = "stored" /\ resp'.mode = "diff"
        /\ resp'.script.path # NoneStr /\ resp'.script.source = NoneStr)
       => LET prev == context_latest[RespKey].script
              new == context_latest'[RespKey].script
          IN (/\ context_latest[RespKey].contextVersion + 1 = resp'.contextVersion
              /\ prev.path = resp'.script.path
              /\ prev.source # NoneStr
              /\ \/ resp'.script.sha1 # NoneStr /\ resp'.script.sha1 = prev.sha1
                 \/ /\ resp'.script.sha1 = NoneStr
                    /\ resp'.script.bytes # None /\ resp'.script.bytes = prev.bytes)
               => (new.source = prev.source /\ new.sourceTruncated = FALSE)]_vars

\* a diff-mode export took its source over from the snapshot before it, whose
\* byte size it matched
C23_Witness ==
  /\ resp.op = "context_export" /\ resp.status = "stored" /\ resp.mode = "diff"
  /\ resp.script.source = NoneStr /\ resp.script.sha1 = NoneStr /\ resp.script.bytes = 5
  /\ context_latest[<<10, "s1">>].contextVersion = 2
  /\ context_latest[<<10, "s1">>].script.source = "srcB"
  /\ ~context_latest[<<10, "s1">>].script.sourceTruncated

\* C24: an export is accepted only with a primary registered, its lease alive
\* and the submitted scope the primary scope; any other export is rejected
\* NoPrimary or ScopeMismatch and changes nothing of the context store.
C24_ExportNeedsLivePrimary ==
  [][Called({"context_export"})
       => IF /\ primary_lease_token # None
             /\ is_primary_alive
             /\ RespKey = scope_key(primary_place_id, primary_session_id)
            THEN resp'.status \notin {"NoPrimary", "ScopeMismatch"}
            ELSE /\ resp'.status \in {"NoPrimary", "ScopeMismatch"}
                 /\ UNCHANGED <<ctxMem, context_file>>]_vars

\* C25: a key that /context/reset has reset has no snapshot in memory and
\* none on disk until it is exported again, so that /context/latest answers
\* NoContext, however the reset and a pass of the reconciler interleave.
C25_ResetLeavesNoSnapshot ==
  \A k \in resetDone : context_latest[k] = NoCtx /\ context_file[k] = NoCtx

\* the scope of the job a bridge step handled
JobScope == <<resp'.placeId, resp'.studioSessionId>>

\* a bridge step for a response whose editScript on game/S names an
\* expectedHash that is not the fingerprint cached for game/S, or names one
\* while none is cached
HashMismatch ==
  /\ Called({"bridge"})
  /\ JobScope \in Scopes
  /\ resp'.expectedHash # NoHash
  /\ LET cached == get_cached_context(JobScope)
     IN \/ cached.script.path # "game/S"
        \/ script_fingerprint(cached.script) # resp'.expectedHash

BridgeStep == Called({"bridge"}) /\ resp'.status # "JobNotFound"

\* a primary is registered and its scope is the scope of the job handled
PrimaryIsJobScope ==
  /\ primary_place_id # None
  /\ primary_session_id # NoneStr
  /\ JobScope = scope_key(primary_place_id, primary_session_id)

\* the items a step appended to the queue
Appended == {i \in DOMAIN queue' : i > Len(queue)}

C28_RepairsBounded ==
  \A t \in BridgeTxIds :
    codex_tx_job_map[t] # 0 => repairsOf[t] <= CODEX_REPAIR_MAX_ATTEMPTS

\* a receipt step that wrote a job file
RepairWritten == Called({"receipt"}) /\ job_uuid' # job_uuid

\* C29: a Receipt writes a repair job only if its errors list is non-empty,
\* auto-repair is enabled, the receipted transaction was enqueued by the job
\* bridge (it is in the transactionId-to-jobId map), its attempt counter is
\* below MAX_ATTEMPTS and its last attempt is older than COOLDOWN_SEC; the
\* job written has repairOf.transactionId equal to the receipted
\* transactionId.
C29_RepairOnlyBridgeTx ==
  [][RepairWritten =>
       LET t == resp'.transactionId
       IN /\ resp'.errors
          /\ CODEX_AUTO_REPAIR
          /\ codex_tx_job_map[t] # 0
          /\ codex_repair_attempts[t] < CODEX_REPAIR_MAX_ATTEMPTS
          /\ (codex_repair_last[t] = NoTime
                \/ now - codex_repair_last[t] >= CODEX_REPAIR_COOLDOWN_SEC)
          /\ codex_jobs'[job_uuid'].repairOf = t]_vars

\* the response file of job j is in responses/ and acks/ has no ack for it
Pending(j) == codex_responses[j] # NoData /\ codex_acks[j] = "none"

\* C30: under fair scheduling of the watcher loop, every response file in
\* responses/ whose ack is absent eventually gets an ack, success or
\* failure; in particular a response whose processing raises an unexpected
\* exception keeps no other pending response from being acknowledged.
C30_EveryResponseAcked ==
  \A j \in JobIds : Pending(j) ~> (codex_acks[j] # "none")

\* C31: after any sequence of bridge operations, for every job id, whenever
\* errors/job_<id>.json exists, acks/job_<id>.json also exists and records a
\* failure (ok: false).
C31_ErrorHasFailingAck ==
  \A j \in codex_errors : codex_acks[j] \notin {"none", "ok"}

\* C32: whenever the bridge writes an ack for a job while a response file for
\* that job is present, the response file is deleted: no response file
\* remains in responses/ indefinitely alongside its ack.
C32_ResponseDeletedAfterAck ==
  \A j \in JobIds :
    (codex_responses[j] # NoData /\ codex_acks[j] # "none") ~> (codex_responses[j] = NoData)

\* C33: the sweeper writes the ack "Codex job expired" for a job only if, at
\* that moment, the job has neither an ack file nor a response file and is
\* older than the TTL; a job with a pending response file is never expired.
C33_ExpireOnlyUnanswered ==
  [][\A j \in JobIds :
       (codex_acks'[j] = "Expired" /\ codex_acks[j] # "Expired")
         => /\ codex_acks[j] = "none"
            /\ codex_responses[j] = NoData
            /\ codex_jobs[j].createdAt # NoTime
            /\ now - codex_jobs[j].createdAt > CODEX_JOB_TTL_SEC]_vars

\* C34: for one queue root at most one codex_worker process at a time holds
\* worker.lock and runs the job loop, on the advisory-lock path and on the
\* pid-file path.
C34_OneWorker ==
  Cardinality({w \in Workers : worker_pc[w] = "running"}) <= 1

\* C35: the step of a reconciler pass that compares and replaces never lowers
\* the contextVersion a key has in memory, and where it replaces the snapshot
\* of a key the version of the key in memory rises.
C35_ReconcileRaises ==
  [][(rec.pc = "apply" /\ rec'.pc = "loop") =>
       \A k \in Scopes :
         /\ context_versions'[k] >= context_versions[k]
         /\ context_latest'[k] # context_latest[k] => context_versions'[k] > context_versions[k]]_vars
\* C36: once an ack exists for a job (success, failure or expiry) the bridge
\* enqueues no transaction for that job, so at most one transaction is ever
\* enqueued for a job, also when /codex/response is posted again for it.
C36_NoEnqueueAfterAck ==
  [][(BridgeStep /\ Appended # {}) => codex_acks[resp'.jobId] = "none"]_vars

\* C37: whenever the watcher enqueues the transaction of a response whose
\* editScript names an expectedHash, the fingerprint cached for that script's
\* path equals expectedHash at the moment of the enqueue.
C37_HashHoldsAtEnqueue ==
  [][(watch.pc = "validated" /\ Appended # {}) =>
       \A j \in watch.todo :
         LET data == codex_responses[j]
         IN data.expectedHash # NoHash =>
              lookup_script_hash(get_cached_context(codex_jobs[j].scope), data.path)
                = data.expectedHash]_vars
\* C38: an export is answered "unchanged" only when its meta.fingerprint
\* equals the meta.fingerprint of the snapshot stored for its key at that
\* moment.
C38_UnchangedMeansSameFingerprint ==
  [][(Called({"context_export"}) /\ resp'.status = "unchanged") =>
       LET k == <<resp'.placeId, resp'.studioSessionId>>
       IN /\ context_latest[k] # NoCtx
          /\ context_latest[k].fingerprint = resp'.fingerprint]_vars

\* a primary is registered and its last heartbeat is older than HEARTBEAT_TTL
HeartbeatOverdue ==
  primary_lease_token # None /\ now - last_heartbeat > HEARTBEAT_TTL_SEC

\* the call that returns presented the lease, the fence and the scope of the
\* primary
ByCurrent ==
  /\ resp'.leaseToken = primary_lease_token /\ resp'.fence = fence
  /\ resp'.placeId = primary_place_id /\ resp'.studioSessionId = primary_session_id

\* C39: with the heartbeat overdue and no register since, heartbeat, sync,
\* wait and receipt that present the current leaseToken, fence and scope are
\* served as with a fresh heartbeat: none fails FenceMismatch or
\* ScopeMismatch, heartbeat and sync answer ok, a receipt for a claim that has
\* not expired answers ok, and none of them changes the lease or the fence;
\* the heartbeat makes the lease alive again; the overdue lease is given up
\* only by the next register, which admits its caller.
C39_ExpiryOnlyAtRegister ==
  [][HeartbeatOverdue =>
       /\ (Called({"heartbeat", "sync", "wait", "receipt"}) /\ ByCurrent) =>
            /\ resp'.status \notin {"FenceMismatch", "ScopeMismatch"}
            /\ resp'.op \in {"heartbeat", "sync"} => resp'.status = "ok"
            /\ (/\ resp'.op = "receipt"
                /\ resp'.claimToken \in DOMAIN claims
                /\ claims[resp'.claimToken].expiresAt > now
                /\ claims[resp'.claimToken].scope = scope_key(primary_place_id, primary_session_id))
                 => resp'.status = "ok"
            /\ UNCHANGED <<leaseVars, fence>>
            /\ resp'.op = "heartbeat" => is_primary_alive'
       /\ Called({"register"}) =>
            /\ resp'.status = "ok"
            /\ resp'.kind = "readmit"
            /\ primary_lease_token' # primary_lease_token]_vars

\* a receipt with the current lease has succeeded while the heartbeat was
\* overdue
C39_Witness ==
  /\ resp.op = "receipt"
  /\ resp.status = "ok"
  /\ resp.leaseToken = primary_lease_token
  /\ HeartbeatOverdue

\* C40: after every successful register the primary scope is the placeId and
\* the studioSessionId of that register request.
C40_RegisterSetsScope ==
  [][(Called({"register"}) /\ resp'.status = "ok") =>
       /\ primary_place_id' = resp'.placeId
       /\ primary_session_id' = resp'.studioSessionId]_vars

====
